---- MODULE Spec2Model ----
(***************************************************************************)
(* A model of wilco's serving core: ComponentRegistry.get                  *)
(* (src/wilco/registry.py), BundleCache and BridgeHandlers                 *)
(* (src/wilco/bridges/base.py).                                            *)
(*                                                                         *)
(* The specifications share the state    and the lock/critical-section      *)
(* steps of BundleCache:                                                   *)
(*   SpecCache  threads call BundleCache.get/set/clear directly;           *)
(*   SpecSeq    one thread calls the BridgeHandlers operations;            *)
(*   Spec       several threads call the BridgeHandlers operations.        *)
(* SpecCache and SpecSeq keep a history of what happened, which bounds     *)
(* their runs; Spec runs without it.                                       *)
(*   SpecRegistry  one caller drives ComponentRegistry.add_source/refresh  *)
(*              and list_bundles over a changing directory tree;           *)
(*   SpecBundler   bundle_component and its source-map rewriting;          *)
(*   SpecAdapters  the framework adapters' mapping of handler outcomes.    *)
(*   SpecFind      _find_esbuild and its memo over changing installations; *)
(*   SpecRace      two threads asking for one bundle while its file        *)
(*              changes, with the history kept;                            *)
(*   SpecServe     get_bundle while sources are added and refreshed;       *)
(*   SpecRefresh   refresh statement by statement next to readers.         *)
(***************************************************************************)
EXTENDS Integers, Sequences, FiniteSets, TLC

VARIABLES
    components,  \* ComponentRegistry.components: name -> Component
    files,       \* the entry files on disk: path -> [exists, mtime]
    cache,       \* BundleCache._cache: name -> CachedBundle
    lock,        \* BundleCache._lock: the thread holding it, or NoThread
    pc,          \* each thread's position in the code
    call,        \* each thread's current top-level call [op, name]
    cop,         \* each thread's current BundleCache operation and arguments
    cret,        \* what the thread's last BundleCache.get returned
    cont,        \* where the thread continues after its BundleCache operation
    loc,         \* the locals of get_bundle / get_metadata
    effects,     \* history: what the current top-level call has touched so far
    outcome,     \* how the thread's top-level call ended
    events,      \* history: cache writes and bundler invocations, in order
    recording,   \* whether this run keeps the histories `events` and loc.cache0
    sources,     \* ComponentRegistry._sources: the ordered list of (path, prefix)
    disk,        \* the directories the registry scans: path -> kind and content
    warned,      \* the warnings add_source has emitted, in order
    regop,       \* history: the last registry operation and what it returned
    probe,       \* the input a function under examination was applied to
    answer,      \* what it produced
    env,         \* where an esbuild can be found on this machine right now
    esbuild_path_cache,  \* bundler.py:19 _esbuild_path_cache
    tmpfiles,    \* the temporary output files of bundle_component that exist
    scan         \* how far a running refresh has got

\* The state of the registry's sources and of the functions examined on
\* their own, which the cache and the handlers leave alone.
toolVars == <<env, esbuild_path_cache, tmpfiles, scan>>
aux == <<sources, disk, warned, regop, probe, answer, toolVars>>

vars == <<components, files, cache, lock, pc, call, cop, cret, cont, loc,
          effects, outcome, events, recording, aux>>

(***************************************************************************)
(* Bounds of the model.                                                    *)
(***************************************************************************)
MaxMtime == 2      \* how often an entry file is rewritten
MaxEvents == 3     \* handler calls start while the history is shorter than this
MaxCacheOps == 2   \* direct BundleCache writes start while the history is shorter

Threads == {"t1", "t2"}
SeqThreads == {"t1"}
NoThread == "none"

(***************************************************************************)
(* Python values.  A name is whatever the caller passes: a str (its        *)
(* characters), or a non-str (None and 0 are falsy, 5 is truthy).          *)
(***************************************************************************)
Str(cs) == [isStr |-> TRUE, chars |-> cs, num |-> 0]
NonStr(n) == [isStr |-> FALSE, chars |-> <<>>, num |-> n]
PyNone == [none |-> TRUE]
Truthy(v) == IF v.isStr THEN Len(v.chars) > 0 ELSE v.num # 0

nameA == Str(<<"a">>)
nameB == Str(<<"s", ":", "b">>)
nameUnknown == Str(<<"c", ".", "d">>)
nameEmpty == Str(<<>>)
nameSlash == Str(<<".", ".", "/", "a">>)
nameBang == Str(<<"a", "!">>)
nameNewline == Str(<<"a", "\n">>)
nameInnerNewline == Str(<<"a", "\n", "b">>)
nameInt == NonStr(5)
nameZero == NonStr(0)

RegisteredNames == {nameA, nameB}
WellFormedNames == {nameA, nameB, nameUnknown}
MalformedNames == {nameEmpty, nameSlash, nameBang, nameNewline,
                   nameInnerNewline, nameInt, nameZero}
Names == WellFormedNames \cup MalformedNames

(***************************************************************************)
(* registry.py:10  _VALID_NAME_RE = re.compile(r"^[a-zA-Z0-9_.:]+$")       *)
(* Pattern.match anchors at the start; "$" matches at the end of the       *)
(* string and also just before a newline that ends the string.             *)
(***************************************************************************)
Lower == {"a", "b", "c", "d", "e", "f", "g", "h", "i", "j", "k", "l", "m",
          "n", "o", "p", "q", "r", "s", "t", "u", "v", "w", "x", "y", "z"}
Upper == {"A", "B", "C", "D", "E", "F", "G", "H", "I", "J", "K", "L", "M",
          "N", "O", "P", "Q", "R", "S", "T", "U", "V", "W", "X", "Y", "Z"}
Digits == {"0", "1", "2", "3", "4", "5", "6", "7", "8", "9"}
NameChars == Lower \cup Upper \cup Digits \cup {"_", ".", ":"}

AllIn(cs, S) == \A i \in 1..Len(cs) : cs[i] \in S

ValidNameRe(cs) ==
    \/ Len(cs) >= 1 /\ AllIn(cs, NameChars)
    \/ /\ Len(cs) >= 2
       /\ cs[Len(cs)] = "\n"
       /\ AllIn(SubSeq(cs, 1, Len(cs) - 1), NameChars)

(***************************************************************************)
(* registry.py:171-190  ComponentRegistry.get: the outcome for `name` on   *)
(* the mapping `comps`.                                                    *)
(***************************************************************************)
Raise(e) == [kind |-> "raise", val |-> [exc |-> e]]
Value(v) == [kind |-> "value", val |-> v]
ReturnNone == [kind |-> "value", val |-> PyNone]
Pending == [kind |-> "pending", val |-> PyNone]

RegistryGet(comps, name) ==
    IF ~Truthy(name) \/ ~name.isStr THEN Raise("ValueError")
    ELSE IF ~ValidNameRe(name.chars) THEN Raise("ValueError")
    ELSE IF name \in DOMAIN comps THEN Value(comps[name]) ELSE ReturnNone

(***************************************************************************)
(* base.py:33-81  BundleCache: the three dict accesses made under the lock. *)
(***************************************************************************)
CachedBundle(result, mtime) == [result |-> result, mtime |-> mtime]

Put(m, k, v) == [x \in DOMAIN m \cup {k} |-> IF x = k THEN v ELSE m[x]]
Pop(m, k) == [x \in DOMAIN m \ {k} |-> m[x]]
EmptyMap == [x \in {} |-> PyNone]

\* The mutants of get: "not newer than" instead of "equal", and no mtime check.
CacheGetNewer(c, name, mtime) ==
    IF name \in DOMAIN c /\ c[name].mtime <= mtime THEN c[name].result ELSE PyNone

CacheGetAnyMtime(c, name, mtime) ==
    IF name \in DOMAIN c THEN c[name].result ELSE PyNone

CacheGet(c, name, mtime) ==
    IF name \in DOMAIN c /\ c[name].mtime = mtime THEN c[name].result ELSE PyNone

\* The mutants of set: an entry that is there is kept; nothing is stored.
CacheSetIfAbsent(c, name, result, mtime) ==
    IF name \in DOMAIN c THEN c ELSE Put(c, name, CachedBundle(result, mtime))

CacheSetDropped(c, name, result, mtime) == c

CacheSet(c, name, result, mtime) == Put(c, name, CachedBundle(result, mtime))

CacheClear(c, name) == IF name = PyNone THEN EmptyMap ELSE Pop(c, name)

(***************************************************************************)
(* The bundler's product (wilco.BundleResult: code and hash).  The code    *)
(* is determined by the component and the version of the entry file the    *)
(* bundler read; a file's version is identified by the mtime it was        *)
(* written at.  The hash is a digest of the code.                          *)
(***************************************************************************)
Digest(code) == <<"sha256", code>>
BundleResult(code) == [code |-> code, hash |-> Digest(code)]
BuildOf(ts_path, version) == BundleResult(<<ts_path, version>>)

Mtimes == 1..MaxMtime
RawResults == {BundleResult("code1"), BundleResult("code2")}

(***************************************************************************)
(* registry.py:13-42  _load_metadata, by the state of the sidecar           *)
(* schema.json at the moment it is read.  A dict is a function from its    *)
(* keys.                                                                   *)
(***************************************************************************)
SidecarStates == {"absent", "unreadable", "bad_json", "bad_utf8", "json_list", "object"}
SchemaObject == [title |-> "Test Component"]
DictGet(d, k, default) == IF k \in DOMAIN d THEN d[k] ELSE default
EmptyDict == [k \in {} |-> ""]

LoadMetadata(s) ==
    CASE s = "absent" -> Value(EmptyDict)                \* schema_path.exists() is false
      [] s = "unreadable" -> Value(EmptyDict)            \* open: OSError, caught
      [] s = "bad_json" -> Value(EmptyDict)              \* json.JSONDecodeError, caught
      [] s = "bad_utf8" -> Raise("UnicodeDecodeError")   \* a ValueError, not caught
      [] s = "json_list" -> Raise("AttributeError")      \* schema.get on a list
      [] OTHER -> Value([title |-> DictGet(SchemaObject, "title", ""),
                         description |-> DictGet(SchemaObject, "description", ""),
                         version |-> DictGet(SchemaObject, "version", ""),
                         props |-> [type |-> DictGet(SchemaObject, "type", "object")]])

(***************************************************************************)
(* The registry and the files it was discovered from.                      *)
(***************************************************************************)
PackageDir(name) == IF name = nameA THEN "components/a" ELSE "store/components/b"
TsPath(name) == IF name = nameA THEN "components/a/index.tsx" ELSE "store/components/b/index.ts"
Component(name) == [name |-> name, package_dir |-> PackageDir(name), ts_path |-> TsPath(name)]
Paths == {TsPath(n) : n \in RegisteredNames}
\* The build of the entry file a name was discovered with.
Build(name, version) == BuildOf(TsPath(name), version)

(***************************************************************************)
(* Thread state.                                                           *)
(***************************************************************************)
NoCall == [op |-> "none", name |-> PyNone]
NoCop == [kind |-> "none", name |-> PyNone, mtime |-> 0, result |-> PyNone]
InitLoc == [component |-> PyNone, mtime |-> 0, result |-> PyNone, metadata |-> PyNone,
            inMeta |-> FALSE, bundle |-> PyNone, builtFrom |-> PyNone, failure |-> PyNone,
            cache0 |-> PyNone]
Event(kind, name, mtime, result) ==
    [kind |-> kind, name |-> name, mtime |-> mtime, result |-> result]

\* The registry was filled before the handlers were built on it; nothing
\* scans or examines anything while they run.
ToolsIdle ==
    /\ env = PyNone
    /\ esbuild_path_cache = PyNone
    /\ tmpfiles = {}
    /\ scan = PyNone

AuxIdle ==
    /\ ToolsIdle
    /\ sources = <<>>
    /\ disk = <<>>
    /\ warned = <<>>
    /\ regop = PyNone
    /\ probe = PyNone
    /\ answer = PyNone

Init ==
    /\ components = [n \in RegisteredNames |-> Component(n)]
    /\ files = [p \in Paths |-> [exists |-> TRUE, mtime |-> 1]]
    /\ cache = EmptyMap
    /\ lock = NoThread
    /\ pc = [t \in Threads |-> "idle"]
    /\ call = [t \in Threads |-> NoCall]
    /\ cop = [t \in Threads |-> NoCop]
    /\ cret = [t \in Threads |-> PyNone]
    /\ cont = [t \in Threads |-> "idle"]
    /\ loc = [t \in Threads |-> InitLoc]
    /\ effects = [t \in Threads |-> {}]
    /\ outcome = [t \in Threads |-> Pending]
    /\ events = <<>>
    /\ recording = TRUE
    /\ AuxIdle

InitConcurrent ==
    /\ components = [n \in RegisteredNames |-> Component(n)]
    /\ files = [p \in Paths |-> [exists |-> TRUE, mtime |-> 1]]
    /\ cache = EmptyMap
    /\ lock = NoThread
    /\ pc = [t \in Threads |-> "idle"]
    /\ call = [t \in Threads |-> NoCall]
    /\ cop = [t \in Threads |-> NoCop]
    /\ cret = [t \in Threads |-> PyNone]
    /\ cont = [t \in Threads |-> "idle"]
    /\ loc = [t \in Threads |-> InitLoc]
    /\ effects = [t \in Threads |-> {}]
    /\ outcome = [t \in Threads |-> Pending]
    /\ events = <<>>
    /\ recording = FALSE
    /\ AuxIdle

Log(ev) == IF recording THEN Append(events, ev) ELSE events

(***************************************************************************)
(* base.py:54, 68, 77  `with self._lock:` -- acquire, the dict access,     *)
(* release.  threading.Lock: acquire blocks while another thread holds it. *)
(***************************************************************************)
\* The mutant: a lock that never makes anyone wait.
CanAcquireAlways(t) == TRUE

CanAcquire(t) == lock = NoThread

LockAcquire(t) ==
    /\ pc[t] = "lock_acquire"
    /\ CanAcquire(t)
    /\ lock' = t
    /\ pc' = [pc EXCEPT ![t] = "cs"]
    /\ UNCHANGED <<components, files, cache, call, cop, cret, cont, loc, effects,
                   outcome, events, recording, aux>>

\* dict.get (55), item assignment (69), dict.clear (79) and dict.pop(name, None)
\* (81) raise for no key, present or absent.
\* The mutant: pop without a default.
DictOpRaisesPopNoDefault(c, o) ==
    o.kind = "clear" /\ o.name # PyNone /\ o.name \notin DOMAIN c

DictOpRaises(c, o) == FALSE

\* The dict access of get (55-58), set (69) or clear (78-81).
CsBody(t) ==
    /\ pc[t] = "cs"
    /\ LET o == cop[t] IN
       /\ cache' = CASE DictOpRaises(cache, o) -> cache
                     [] o.kind = "set" -> CacheSet(cache, o.name, o.result, o.mtime)
                     [] o.kind = "clear" -> CacheClear(cache, o.name)
                     [] OTHER -> cache
       /\ outcome' = [outcome EXCEPT ![t] =
                        IF DictOpRaises(cache, o) THEN Raise("KeyError") ELSE @]
       /\ cret' = [cret EXCEPT ![t] =
                     IF o.kind = "get" THEN CacheGet(cache, o.name, o.mtime) ELSE PyNone]
       /\ events' = IF o.kind \in {"set", "clear"} /\ ~DictOpRaises(cache, o)
                    THEN Log(Event(o.kind, o.name, o.mtime, o.result))
                    ELSE events
       /\ effects' = [effects EXCEPT ![t] = @ \cup {o.kind}]
    /\ pc' = [pc EXCEPT ![t] = "lock_release"]
    /\ UNCHANGED <<components, files, lock, call, cop, cont, loc, recording, aux>>

\* Leaving the `with` block, normally or by an exception, releases the lock.
\* The mutant: leaving without releasing.
ReleasedLockKept(t) == lock

ReleasedLock(t) == NoThread

LockRelease(t) ==
    /\ pc[t] = "lock_release"
    /\ lock' = ReleasedLock(t)
    /\ pc' = [pc EXCEPT ![t] = IF outcome[t].kind = "raise" THEN "done" ELSE cont[t]]
    /\ UNCHANGED <<components, files, cache, call, cop, cret, cont, loc, effects,
                   outcome, events, recording, aux>>

\* Entering a BundleCache operation from a handler: the arguments are bound
\* and the thread stands at the `with self._lock:` line.
EnterCache(t, kind, name, mtime, result, after) ==
    /\ cop' = [cop EXCEPT ![t] =
                 [kind |-> kind, name |-> name, mtime |-> mtime, result |-> result]]
    /\ cont' = [cont EXCEPT ![t] = after]
    /\ pc' = [pc EXCEPT ![t] = "lock_acquire"]

StartCall(t, op, name) ==
    /\ pc[t] = "idle"
    /\ call' = [call EXCEPT ![t] = [op |-> op, name |-> name]]
    /\ effects' = [effects EXCEPT ![t] = {}]
    /\ outcome' = [outcome EXCEPT ![t] = Pending]
    /\ loc' = [loc EXCEPT ![t] = InitLoc]
    /\ cret' = [cret EXCEPT ![t] = PyNone]

\* A call of a BridgeHandlers operation; a recording run remembers the cache
\* the call found.
HandlerCall(t, op, name) ==
    /\ pc[t] = "idle"
    /\ call' = [call EXCEPT ![t] = [op |-> op, name |-> name]]
    /\ effects' = [effects EXCEPT ![t] = {}]
    /\ outcome' = [outcome EXCEPT ![t] = Pending]
    /\ loc' = [loc EXCEPT ![t] = [InitLoc EXCEPT !.cache0 = IF recording THEN cache ELSE PyNone]]
    /\ cret' = [cret EXCEPT ![t] = PyNone]

\* The caller takes the result; the thread is free for its next call.
Finish(t) ==
    /\ pc[t] = "done"
    /\ pc' = [pc EXCEPT ![t] = "idle"]
    /\ call' = [call EXCEPT ![t] = NoCall]
    /\ cop' = [cop EXCEPT ![t] = NoCop]
    /\ cret' = [cret EXCEPT ![t] = PyNone]
    /\ cont' = [cont EXCEPT ![t] = "idle"]
    /\ loc' = [loc EXCEPT ![t] = InitLoc]
    /\ effects' = [effects EXCEPT ![t] = {}]
    /\ outcome' = [outcome EXCEPT ![t] = Pending]
    /\ UNCHANGED <<components, files, cache, lock, events, recording, aux>>

(***************************************************************************)
(* A thread calling BundleCache.get / set / clear directly (SpecCache):    *)
(* the call proceeds into the `with` block once the lock is free, and      *)
(* returns when it has released it.                                        *)
(***************************************************************************)
CacheNames == {nameA, nameB}

CacheCall(t, op, kind, name, mtime, result) ==
    /\ StartCall(t, op, name)
    /\ kind \in {"set", "clear"} => Len(events) < MaxCacheOps
    /\ CanAcquire(t)
    /\ lock' = t
    /\ cop' = [cop EXCEPT ![t] =
                 [kind |-> kind, name |-> name, mtime |-> mtime, result |-> result]]
    /\ cont' = [cont EXCEPT ![t] = "done"]
    /\ pc' = [pc EXCEPT ![t] = "cs"]
    /\ UNCHANGED <<components, files, cache, events, recording, aux>>

CallCacheGet(t, name, mtime) == CacheCall(t, "cache_get", "get", name, mtime, PyNone)

CallCacheSet(t, name, result, mtime) == CacheCall(t, "cache_set", "set", name, mtime, result)

CallCacheClear(t, name) == CacheCall(t, "cache_clear", "clear", name, 0, PyNone)

CacheNext ==
    \E t \in Threads :
        \/ \E n \in CacheNames, m \in Mtimes : CallCacheGet(t, n, m)
        \/ \E n \in CacheNames, r \in RawResults, m \in Mtimes : CallCacheSet(t, n, r, m)
        \/ \E n \in CacheNames \cup {PyNone} : CallCacheClear(t, n)
        \/ CsBody(t)
        \/ LockRelease(t)
        \/ Finish(t)

SpecCache == Init /\ [][CacheNext]_vars

(***************************************************************************)
(* The external bundler, as get_bundle sees it (base.py:150,               *)
(* bundler.py:235-299): it reads the entry file and either yields a        *)
(* BundleResult or fails.  RuntimeError: non-zero exit or timeout;         *)
(* BundlerNotFoundError: no esbuild.  A vanished entry file makes esbuild  *)
(* exit non-zero.                                                          *)
(***************************************************************************)
BundlerFailures == {"RuntimeError", "BundlerNotFoundError"}

(***************************************************************************)
(* base.py:123-155  BridgeHandlers.get_bundle, statement by statement.     *)
(* When it was called by get_metadata (176) its result or exception goes   *)
(* back into get_metadata, which has no handler around the call.           *)
(***************************************************************************)
GbLeave(t, out) ==
    IF loc[t].inMeta /\ out.kind # "raise"
    THEN /\ loc' = [loc EXCEPT ![t].bundle = out.val]
         /\ pc' = [pc EXCEPT ![t] = "gm_finish"]
         /\ outcome' = outcome
    ELSE /\ outcome' = [outcome EXCEPT ![t] = out]
         /\ pc' = [pc EXCEPT ![t] = "done"]
         /\ loc' = loc

CallGetBundle(t, name) ==
    /\ HandlerCall(t, "get_bundle", name)
    /\ Len(events) < MaxEvents
    /\ pc' = [pc EXCEPT ![t] = "gb_registry"]
    /\ UNCHANGED <<components, files, cache, lock, cop, cont, events, recording, aux>>

\* 134-136: component = self.registry.get(name); None -> return None.
GbLookup(t) == RegistryGet(components, call[t].name)

GbRegistry(t) ==
    /\ pc[t] = "gb_registry"
    /\ LET r == GbLookup(t) IN
       IF r.kind = "raise" \/ r.val = PyNone
       THEN GbLeave(t, r)
       ELSE /\ loc' = [loc EXCEPT ![t].component = r.val]
            /\ pc' = [pc EXCEPT ![t] = "gb_stat"]
            /\ outcome' = outcome
    /\ UNCHANGED <<components, files, cache, lock, call, cop, cret, cont, effects, events, recording, aux>>

\* 139-145: stat the entry file; OSError -> return None; else go to the
\* cache with the mtime just read.
\* The mutant: a failed stat let through as an exception.
StatFailureRaised == Raise("OSError")

StatFailure == ReturnNone

GbStat(t) ==
    /\ pc[t] = "gb_stat"
    /\ LET f == files[loc[t].component.ts_path] IN
       /\ effects' = [effects EXCEPT ![t] =
                        @ \cup (IF f.exists THEN {"stat"} ELSE {"stat", "stat_failed"})]
       /\ IF ~f.exists
          THEN /\ GbLeave(t, StatFailure)
               /\ UNCHANGED <<cop, cont>>
          ELSE /\ loc' = [loc EXCEPT ![t].mtime = f.mtime]
               /\ EnterCache(t, "get", call[t].name, f.mtime, PyNone, "gb_check")
               /\ outcome' = outcome
    /\ UNCHANGED <<components, files, cache, lock, call, cret, events, recording, aux>>

\* 146-147: a hit is returned as it is.
GbCheck(t) ==
    /\ pc[t] = "gb_check"
    /\ IF cret[t] # PyNone
       THEN /\ GbLeave(t, Value(cret[t]))
            /\ effects' = [effects EXCEPT ![t] = @ \cup {"hit"}]
       ELSE /\ pc' = [pc EXCEPT ![t] = "gb_bundle"]
            /\ UNCHANGED <<loc, outcome, effects>>
    /\ UNCHANGED <<components, files, cache, lock, call, cop, cret, cont, events, recording, aux>>

\* 150: bundle_component starts; the bundler reads the entry file.
GbBundleStart(t) ==
    /\ pc[t] = "gb_bundle"
    /\ effects' = [effects EXCEPT ![t] = @ \cup {"bundler"}]
    /\ events' = Log(Event("invoke", call[t].name, loc[t].mtime, PyNone))
    /\ loc' = [loc EXCEPT ![t].builtFrom = files[loc[t].component.ts_path]]
    /\ pc' = [pc EXCEPT ![t] = "gb_bundling"]
    /\ UNCHANGED <<components, files, cache, lock, call, cop, cret, cont, outcome, recording, aux>>

\* 150-153: bundle_component returns a result, which goes to the cache under
\* the mtime read at 140 ...
\* The mutant: the mtime the file had when the bundler read it.
StoredMtimeAtRead(t) == loc[t].builtFrom.mtime

StoredMtime(t) == loc[t].mtime

GbBundleOk(t) ==
    /\ pc[t] = "gb_bundling"
    /\ loc[t].builtFrom.exists
    /\ LET result == BuildOf(loc[t].component.ts_path, loc[t].builtFrom.mtime) IN
       /\ loc' = [loc EXCEPT ![t].result = result]
       /\ EnterCache(t, "set", call[t].name, StoredMtime(t), result, "gb_return")
    /\ UNCHANGED <<components, files, cache, lock, call, cret, effects, outcome, events, recording, aux>>

\* ... or raises, and nothing in get_bundle catches it.
\* The mutant: the failure cached as if it were a result.
GbFailureCached(t, e) ==
    /\ loc' = [loc EXCEPT ![t].failure = e, ![t].result = Build(call[t].name, 0)]
    /\ EnterCache(t, "set", call[t].name, loc[t].mtime, Build(call[t].name, 0),
                  "gb_return")
    /\ outcome' = outcome

GbFailure(t, e) ==
    /\ outcome' = [outcome EXCEPT ![t] = Raise(e)]
    /\ pc' = [pc EXCEPT ![t] = "done"]
    /\ loc' = [loc EXCEPT ![t].failure = e]
    /\ UNCHANGED <<cop, cont>>

GbBundleFail(t, e) ==
    /\ pc[t] = "gb_bundling"
    /\ ~loc[t].builtFrom.exists => e = "RuntimeError"
    /\ effects' = [effects EXCEPT ![t] = @ \cup {"bundler_failed"}]
    /\ GbFailure(t, e)
    /\ UNCHANGED <<components, files, cache, lock, call, cret, events, recording, aux>>

\* 155: return result.
GbReturn(t) ==
    /\ pc[t] = "gb_return"
    /\ GbLeave(t, Value(loc[t].result))
    /\ UNCHANGED <<components, files, cache, lock, call, cop, cret, cont, effects, events, recording, aux>>

(***************************************************************************)
(* base.py:157-180  BridgeHandlers.get_metadata.                           *)
(***************************************************************************)
CallGetMetadata(t, name) ==
    /\ HandlerCall(t, "get_metadata", name)
    /\ Len(events) < MaxEvents
    /\ pc' = [pc EXCEPT ![t] = "gm_registry"]
    /\ UNCHANGED <<components, files, cache, lock, cop, cont, events, recording, aux>>

\* 169-171: component = self.registry.get(name); None -> return None.
GmLookup(t) == RegistryGet(components, call[t].name)

GmRegistry(t) ==
    /\ pc[t] = "gm_registry"
    /\ LET r == GmLookup(t) IN
       IF r.kind = "raise" \/ r.val = PyNone
       THEN /\ outcome' = [outcome EXCEPT ![t] = r]
            /\ pc' = [pc EXCEPT ![t] = "done"]
            /\ loc' = loc
       ELSE /\ loc' = [loc EXCEPT ![t].component = r.val]
            /\ pc' = [pc EXCEPT ![t] = "gm_metadata"]
            /\ outcome' = outcome
    /\ UNCHANGED <<components, files, cache, lock, call, cop, cret, cont, effects, events, recording, aux>>

\* 173, 176: metadata = dict(component.metadata), which reads the sidecar in
\* whatever state it is in; then self.get_bundle(name).
GmMetadata(t, sidecar) ==
    /\ pc[t] = "gm_metadata"
    /\ effects' = [effects EXCEPT ![t] = @ \cup {"sidecar"}]
    /\ LET m == LoadMetadata(sidecar) IN
       IF m.kind = "raise"
       THEN /\ outcome' = [outcome EXCEPT ![t] = m]
            /\ pc' = [pc EXCEPT ![t] = "done"]
            /\ loc' = loc
       ELSE /\ loc' = [loc EXCEPT ![t].metadata = m.val, ![t].inMeta = TRUE]
            /\ pc' = [pc EXCEPT ![t] = "gb_registry"]
            /\ outcome' = outcome
    /\ UNCHANGED <<components, files, cache, lock, call, cop, cret, cont, events, recording, aux>>

\* 177-180: if result: metadata["hash"] = result.hash; return metadata.
\* The mutant: no bundle, no metadata.
GmResultNoneWithoutBundle(metadata, result) ==
    IF result # PyNone THEN Value(Put(metadata, "hash", result.hash)) ELSE ReturnNone

GmResult(metadata, result) ==
    Value(IF result # PyNone THEN Put(metadata, "hash", result.hash) ELSE metadata)

GmFinish(t) ==
    /\ pc[t] = "gm_finish"
    /\ outcome' = [outcome EXCEPT ![t] = GmResult(loc[t].metadata, loc[t].bundle)]
    /\ pc' = [pc EXCEPT ![t] = "done"]
    /\ UNCHANGED <<components, files, cache, lock, call, cop, cret, cont, loc, effects,
                   events, recording, aux>>

(***************************************************************************)
(* base.py:182-188  BridgeHandlers.clear_cache: self._cache.clear(name).   *)
(***************************************************************************)
ClearArgs == RegisteredNames \cup {PyNone}

CallClearCache(t, name) ==
    /\ HandlerCall(t, "clear_cache", name)
    /\ Len(events) < MaxEvents
    /\ EnterCache(t, "clear", name, 0, PyNone, "cc_return")
    /\ UNCHANGED <<components, files, cache, lock, events, recording, aux>>

CcReturn(t) ==
    /\ pc[t] = "cc_return"
    /\ outcome' = [outcome EXCEPT ![t] = ReturnNone]
    /\ pc' = [pc EXCEPT ![t] = "done"]
    /\ UNCHANGED <<components, files, cache, lock, call, cop, cret, cont, loc, effects,
                   events, recording, aux>>

(***************************************************************************)
(* The world outside: an editor or another process rewrites an entry file  *)
(* (its mtime moves on) or removes it.                                     *)
(***************************************************************************)
Touch(p) ==
    /\ files[p].exists
    /\ files[p].mtime < MaxMtime
    /\ files' = [files EXCEPT ![p].mtime = @ + 1]
    /\ UNCHANGED <<components, cache, lock, pc, call, cop, cret, cont, loc, effects,
                   outcome, events, recording, aux>>

Remove(p) ==
    /\ files[p].exists
    /\ files' = [files EXCEPT ![p].exists = FALSE]
    /\ UNCHANGED <<components, cache, lock, pc, call, cop, cret, cont, loc, effects,
                   outcome, events, recording, aux>>

GetBundleStep(t) ==
    \/ GbRegistry(t)
    \/ GbStat(t)
    \/ LockAcquire(t)
    \/ CsBody(t)
    \/ LockRelease(t)
    \/ GbCheck(t)
    \/ GbBundleStart(t)
    \/ GbBundleOk(t)
    \/ \E e \in BundlerFailures : GbBundleFail(t, e)
    \/ GbReturn(t)
    \/ CcReturn(t)
    \/ Finish(t)

GetMetadataStep(t) ==
    \/ GmRegistry(t)
    \/ \E sc \in SidecarStates : GmMetadata(t, sc)
    \/ GmFinish(t)

\* One entry file is being edited, the other may disappear.
World == Touch(TsPath(nameA)) \/ Remove(TsPath(nameB))

\* One thread serving requests one after the other, with any name a client may send.
SeqNext ==
    \/ \E t \in SeqThreads :
          \/ \E n \in Names : CallGetBundle(t, n)
          \/ \E n \in Names : CallGetMetadata(t, n)
          \/ \E n \in ClearArgs : CallClearCache(t, n)
          \/ GetBundleStep(t)
          \/ GetMetadataStep(t)
    \/ World

SpecSeq == Init /\ [][SeqNext]_vars

\* Request threads of a multi-threaded server running get_bundle and
\* clear_cache against each other.
Next ==
    \/ \E t \in Threads :
          \/ \E n \in RegisteredNames : CallGetBundle(t, n)
          \/ \E n \in ClearArgs : CallClearCache(t, n)
          \/ GetBundleStep(t)
    \/ World

Spec == InitConcurrent /\ [][Next]_vars

(***************************************************************************)
(* What the history of cache writes says the cache should hold: the most   *)
(* recent set or clear that concerns a name decides its entry.             *)
(***************************************************************************)
Concerns(e, name) ==
    /\ e.kind \in {"set", "clear"}
    /\ e.name = name \/ (e.kind = "clear" /\ e.name = PyNone)

WritesOf(log, name) == {i \in 1..Len(log) : Concerns(log[i], name)}

MaxOf(S) == CHOOSE x \in S : \A y \in S : y <= x

HistoryEntry(log, name) ==
    IF WritesOf(log, name) = {} THEN PyNone
    ELSE LET e == log[MaxOf(WritesOf(log, name))] IN
         IF e.kind = "set" THEN CachedBundle(e.result, e.mtime) ELSE PyNone

HistoryGet(log, name, mtime) ==
    LET e == HistoryEntry(log, name) IN
    IF e # PyNone /\ e.mtime = mtime THEN e.result ELSE PyNone

Entry(c, name) == IF name \in DOMAIN c THEN c[name] ELSE PyNone

InCs(t) == pc[t] \in {"cs", "lock_release"}
GetDone(t) == pc[t] = "lock_release" /\ cop[t].kind = "get"

(***************************************************************************)
(* C1: BundleCache.get(name, mtime=T) returns R exactly when the most       *)
(* recent set or clear concerning `name` was set(name, R, mtime=T), and    *)
(* None in every other case; the map holds for every name what its last    *)
(* write left (set overwrites, clear(name) removes only that name, get     *)
(* changes nothing).                                                       *)
(***************************************************************************)
C1_GetReturnsLastSet ==
    /\ \A n \in CacheNames : Entry(cache, n) = HistoryEntry(events, n)
    /\ DOMAIN cache \subseteq CacheNames
    /\ \A t \in Threads :
         GetDone(t) => cret[t] = HistoryGet(events, cop[t].name, cop[t].mtime)

\* A get hits the second of two sets of its name, which replaced another result.
C1_Witness ==
    \E t \in Threads :
        /\ GetDone(t)
        /\ Len(events) = 2
        /\ events[1].kind = "set" /\ events[2].kind = "set"
        /\ events[1].name = cop[t].name /\ events[2].name = cop[t].name
        /\ events[1].result # events[2].result
        /\ cret[t] = events[2].result

(***************************************************************************)
(* C9: under any interleaving at most one thread is inside a BundleCache   *)
(* critical section and it is the one holding the lock; a get returns      *)
(* None or a result that a set stored for that name with that mtime and    *)
(* that no clear removed since; no operation raises and the map holds      *)
(* only well-formed entries.                                               *)
(***************************************************************************)
C9_CacheThreadSafe ==
    /\ Cardinality({t \in Threads : InCs(t)}) <= 1
    /\ \A t \in Threads : InCs(t) <=> lock = t
    /\ \A t \in Threads :
         (GetDone(t) /\ cret[t] # PyNone) =>
             \E i \in 1..Len(events) :
                 /\ events[i] = Event("set", cop[t].name, cop[t].mtime, cret[t])
                 /\ \A j \in (i + 1)..Len(events) :
                      ~(events[j].kind = "clear" /\ Concerns(events[j], cop[t].name))
    /\ \A t \in Threads : outcome[t].kind # "raise"
    /\ \A n \in DOMAIN cache : cache[n] \in [result : RawResults, mtime : Mtimes]

\* One thread has finished a set and has not yet gone on; another thread's get,
\* still inside the lock, has read what the first stored.
C9_Witness ==
    \E t, u \in Threads :
        /\ t # u
        /\ pc[t] = "done" /\ cop[t].kind = "set"
        /\ GetDone(u) /\ cop[u].name = cop[t].name
        /\ cret[u] = cop[t].result

(***************************************************************************)
(* The handler claims speak of a call that has ended, or of a get_bundle   *)
(* that stands at a given line.                                            *)
(***************************************************************************)
Ended(t, op) == pc[t] = "done" /\ call[t].op = op

\* A name as the specification allows it: a non-empty str over [A-Za-z0-9_.:].
WellFormed(name) == name.isStr /\ Len(name.chars) >= 1 /\ AllIn(name.chars, NameChars)

IsInvoke(e, name, mtime) == e.kind = "invoke" /\ e.name = name /\ e.mtime = mtime
IsSet(e, name, mtime) == e.kind = "set" /\ e.name = name /\ e.mtime = mtime

C3_FailedBuildNotCached ==
    /\ \A t \in SeqThreads :
         (Ended(t, "get_bundle") /\ "bundler_failed" \in effects[t]) =>
             /\ loc[t].failure \in BundlerFailures
             /\ outcome[t] = Raise(loc[t].failure)
             /\ "set" \notin effects[t]
             /\ cache = loc[t].cache0
             /\ CacheGet(cache, call[t].name, loc[t].mtime) = PyNone
    /\ \A n \in DOMAIN cache : \E v \in Mtimes : cache[n].result = Build(n, v)

\* The build of a rewritten file fails while the cache still holds the
\* result for the previous version.
C3_Witness ==
    \E t \in SeqThreads :
        /\ Ended(t, "get_bundle")
        /\ "bundler_failed" \in effects[t]
        /\ call[t].name \in DOMAIN cache
        /\ cache[call[t].name].mtime # loc[t].mtime

(***************************************************************************)
(* C4, as claimed: ComponentRegistry.get raises ValueError exactly for a   *)
(* name that is empty, not a str, or holds a character outside             *)
(* [A-Za-z0-9_.:]; for any other name it returns the component under that  *)
(* key, or None.  (get is the first statement of get_bundle and of         *)
(* get_metadata; a call that ended with no effect ended there.)            *)
(***************************************************************************)
C4_AsClaimed ==
    \A t \in SeqThreads :
        (pc[t] = "done" /\ call[t].op \in {"get_bundle", "get_metadata"}
                        /\ effects[t] = {}) =>
            /\ ~WellFormed(call[t].name) <=> outcome[t] = Raise("ValueError")
            /\ WellFormed(call[t].name) => outcome[t] = ReturnNone

(***************************************************************************)
(* C5, as claimed: get_bundle and get_metadata called with a malformed     *)
(* name fail with ValueError, having touched neither the file system, the  *)
(* sidecar, the cache nor the bundler.                                     *)
(***************************************************************************)
C5_AsClaimed ==
    \A t \in SeqThreads :
        (pc[t] = "done" /\ call[t].op \in {"get_bundle", "get_metadata"}
                        /\ ~WellFormed(call[t].name)) =>
            /\ outcome[t] = Raise("ValueError")
            /\ effects[t] = {}
            /\ cache = loc[t].cache0

(***************************************************************************)
(* C6: for a well-formed name, get_bundle returns None when no component   *)
(* is registered under it or when the stat of its entry file fails, and    *)
(* it has then neither raised, nor run the bundler, nor touched the cache. *)
(***************************************************************************)
C6_AbsentResultForMissing ==
    \A t \in SeqThreads :
        (Ended(t, "get_bundle") /\ WellFormed(call[t].name)
            /\ (call[t].name \notin DOMAIN components \/ "stat_failed" \in effects[t])) =>
                /\ outcome[t] = ReturnNone
                /\ effects[t] \subseteq {"stat", "stat_failed"}
                /\ cache = loc[t].cache0

\* The entry file vanished after its bundle was cached.
C6_Witness ==
    \E t \in SeqThreads :
        /\ Ended(t, "get_bundle")
        /\ "stat_failed" \in effects[t]
        /\ call[t].name \in DOMAIN cache
        /\ outcome[t] = ReturnNone

(***************************************************************************)
(* C7, as claimed: when bundling fails inside get_metadata, get_metadata   *)
(* returns the metadata without `hash`; when it succeeds, with `hash`      *)
(* equal to the hash of the result get_bundle produced.                    *)
(***************************************************************************)
C7_AsClaimed ==
    \A t \in SeqThreads :
        Ended(t, "get_metadata") =>
            /\ "bundler_failed" \in effects[t] =>
                   /\ outcome[t].kind = "value"
                   /\ outcome[t].val = loc[t].metadata
                   /\ "hash" \notin DOMAIN outcome[t].val
            /\ loc[t].bundle # PyNone =>
                   /\ outcome[t].kind = "value"
                   /\ outcome[t].val = Put(loc[t].metadata, "hash", loc[t].bundle.hash)

(***************************************************************************)
(* C8.  Python's except ValueError also catches UnicodeDecodeError.        *)
(***************************************************************************)
IsValueError(o) == o.kind = "raise" /\ o.val.exc \in {"ValueError", "UnicodeDecodeError"}

\* What get_bundle does with the name in the state get_metadata ran in: it
\* raises at registry.get, or returns None for an unknown name or a failed stat.
GetBundleRaisesValueError(t) == IsValueError(RegistryGet(components, call[t].name))
GetBundleReturnsNone(t) ==
    \/ RegistryGet(components, call[t].name) = ReturnNone
    \/ "stat_failed" \in effects[t]

InBundler(t) == pc[t] = "gb_bundling"
InCacheOp(t) == pc[t] \in {"lock_acquire", "cs", "lock_release"}

C10_LockNotHeldWhileBundling ==
    /\ \A t \in Threads : InBundler(t) => lock # t
    /\ \A t \in Threads : lock = t <=> InCs(t)
    /\ \A t \in Threads :
         (pc[t] = "lock_acquire" /\ \A u \in Threads \ {t} : ~InCs(u)) =>
             ENABLED LockAcquire(t)
    /\ (\E t \in Threads : InCacheOp(t)) =>
           \E u \in Threads : ENABLED (LockAcquire(u) \/ CsBody(u) \/ LockRelease(u))

\* While one thread is in the bundler for one component, another is inside
\* the lock with a cache hit for another component.
C10_Witness ==
    \E t, u \in Threads :
        /\ InBundler(t)
        /\ GetDone(u) /\ cret[u] # PyNone
        /\ call[u].name # call[t].name

(***************************************************************************)
(* ComponentRegistry over a directory tree (registry.py:59-195).           *)
(*                                                                         *)
(* A path is a string; a directory below a source root is the sequence of  *)
(* its segments, each a sequence of characters.  The tree holds no         *)
(* symbolic links, so a directory has one resolved spelling.               *)
(***************************************************************************)
MaxRegOps == 3      \* add_source and refresh calls in one run

dirA == "dirA"
dirB == "dirB"
pathMissing == "nowhere"
pathFile == "notes.txt"
SourcePaths == {dirA, dirB, pathMissing, pathFile}

relRoot == <<>>
relWidget == << <<"w">> >>
relNested == << <<"n">>, <<"w">> >>
relDotted == << <<"n", ".", "w">> >>
relDashed == << <<"x", "-", "y">> >>
RelDirs == {relRoot, relWidget, relNested, relDotted, relDashed}

prefixNone == <<>>
prefixStore == <<"s">>
prefixDashed == <<"m", "-", "s">>
Prefixes == {prefixNone, prefixStore, prefixDashed}

EntryFiles == {"index.tsx", "index.ts"}

\* No entry file anywhere below a root.
EmptyTree == [r \in RelDirs |-> {}]
Dir(tree) == [kind |-> "dir", tree |-> tree]
NotADir(kind) == [kind |-> kind, tree |-> EmptyTree]

\* str(rel_path): the segments joined by the path separator.
RECURSIVE PathStr(_)
PathStr(rel) ==
    IF Len(rel) = 0 THEN <<".">>
    ELSE IF Len(rel) = 1 THEN rel[1]
    ELSE rel[1] \o <<"/">> \o PathStr(Tail(rel))

\* str.replace(old, new) for one-character strings.
Replace(cs, old, new) == [i \in DOMAIN cs |-> IF cs[i] = old THEN new ELSE cs[i]]

\* 154-155: rel_path, with both kinds of separator turned into dots.
BaseName(rel) == Replace(Replace(PathStr(rel), "/", "."), "\\", ".")

\* 158: name = f"{prefix}:{base_name}" if prefix else base_name
\* The mutant: the prefix always applied.
ComponentNameAlwaysPrefixed(prefix, rel) == Str(prefix \o <<":">> \o BaseName(rel))

ComponentName(prefix, rel) ==
    IF Len(prefix) > 0 THEN Str(prefix \o <<":">> \o BaseName(rel))
    ELSE Str(BaseName(rel))

\* 160-164: the Component built for a directory.
Discovered(name, path, rel, ts) ==
    [name |-> name, package_dir |-> <<path, rel>>, ts_path |-> <<path, rel, ts>>]

\* 133-134: what components_dir.glob(pattern) yields, in the order the file
\* system lists directories (the same for an unchanged tree).
GlobOrder == <<relRoot, relDashed, relNested, relDotted, relWidget>>
Glob(tree, file) == SelectSeq(GlobOrder, LAMBDA r : file \in tree[r])
Tag(rels, file) == [i \in DOMAIN rels |-> [rel |-> rels[i], file |-> file]]
GlobBoth(tree) ==
    Tag(Glob(tree, "index.tsx"), "index.tsx") \o Tag(Glob(tree, "index.ts"), "index.ts")

\* 134-164: the body of the two loops, over the remaining matches.
RECURSIVE DiscoverLoop(_, _, _, _, _, _)
DiscoverLoop(comps, seen, matches, path, prefix, tree) ==
    IF matches = <<>> THEN comps
    ELSE LET m == Head(matches)
             ts == IF "index.tsx" \in tree[m.rel] THEN "index.tsx" ELSE m.file
             name == ComponentName(prefix, m.rel)
         IN  IF m.rel = relRoot \/ m.rel \in seen
             THEN DiscoverLoop(comps, seen, Tail(matches), path, prefix, tree)
             ELSE DiscoverLoop(Put(comps, name, Discovered(name, path, m.rel, ts)),
                               seen \cup {m.rel}, Tail(matches), path, prefix, tree)

\* 118-164
DiscoverFrom(comps, path, prefix, d) ==
    IF d[path].kind = "missing" THEN comps
    ELSE DiscoverLoop(comps, {}, GlobBoth(d[path].tree), path, prefix, d[path].tree)

\* 166-169: every source, in the order of the list.
\* The mutant: the sources scanned last to first.
RECURSIVE DiscoverReversed(_, _, _)
DiscoverReversed(comps, srcs, d) ==
    IF srcs = <<>> THEN comps
    ELSE DiscoverReversed(
             DiscoverFrom(comps, srcs[Len(srcs)].path, srcs[Len(srcs)].prefix, d),
             SubSeq(srcs, 1, Len(srcs) - 1), d)

RECURSIVE Discover(_, _, _)
Discover(comps, srcs, d) ==
    IF srcs = <<>> THEN comps
    ELSE Discover(DiscoverFrom(comps, Head(srcs).path, Head(srcs).prefix, d), Tail(srcs), d)

Source(path, prefix) == [path |-> path, prefix |-> prefix]

(***************************************************************************)
(* The registry's operations, called one after the other by the code that  *)
(* configures the application, while the tree changes underneath.          *)
(***************************************************************************)
Warning(text, path) == [text |-> text, path |-> path]

\* The record of a registry call: what was called with what, what it
\* returned, and how many add_source and refresh calls there have been.
RegOp(op, arg, ret) ==
    [op |-> op, arg |-> arg, ret |-> ret, calls |-> regop.calls + 1]
NoRegOp == [op |-> "none", arg |-> PyNone, ret |-> PyNone, calls |-> 0]

HandlersIdle ==
    /\ files = EmptyMap
    /\ cache = EmptyMap
    /\ lock = NoThread
    /\ pc = [t \in Threads |-> "idle"]
    /\ call = [t \in Threads |-> NoCall]
    /\ cop = [t \in Threads |-> NoCop]
    /\ cret = [t \in Threads |-> PyNone]
    /\ cont = [t \in Threads |-> "idle"]
    /\ loc = [t \in Threads |-> InitLoc]
    /\ effects = [t \in Threads |-> {}]
    /\ outcome = [t \in Threads |-> Pending]
    /\ events = <<>>
    /\ recording = FALSE

handlerVars == <<files, cache, lock, pc, call, cop, cret, cont, loc, effects,
                 outcome, events, recording>>

\* 77-88: ComponentRegistry(), beside two directories that each hold a
\* widget; dirA also has an entry file at its root and both kinds of entry
\* file for its widget, dirB's widget has index.ts only, and dirB/x-y holds
\* a component.tsx and no entry file.
InitRegistry ==
    /\ components = EmptyMap
    /\ sources = <<>>
    /\ warned = <<>>
    /\ disk = [p \in SourcePaths |->
                 IF p = dirA
                 THEN Dir([EmptyTree EXCEPT ![relWidget] = EntryFiles,
                                            ![relRoot] = {"index.tsx"}])
                 ELSE IF p = dirB
                 THEN Dir([EmptyTree EXCEPT ![relWidget] = {"index.ts"},
                                            ![relDashed] = {"component.tsx"}])
                 ELSE IF p = pathFile THEN NotADir("file") ELSE NotADir("missing")]
    /\ regop = NoRegOp
    /\ probe = PyNone
    /\ answer = PyNone
    /\ HandlersIdle
    /\ ToolsIdle

\* 102-113: the two checks of add_source.
\* The mutant: a path that is no directory recorded all the same.
AcceptsSourceUnchecked(kind) == TRUE

AcceptsSource(kind) == kind = "dir"

\* 115: self._sources.append((path, prefix))
\* The mutant: the new source put first.
RecordedSourcesPrepended(srcs, path, prefix) == <<Source(path, prefix)>> \o srcs

RecordedSources(srcs, path, prefix) == Append(srcs, Source(path, prefix))

\* The arguments the configuring code passes to add_source.
SourceArgs ==
    {Source(dirA, prefixNone), Source(dirB, prefixNone), Source(dirB, prefixStore),
     Source(dirA, prefixDashed), Source(pathMissing, prefixNone),
     Source(pathFile, prefixStore)}

\* 95-116
AddSource(path, prefix) ==
    /\ regop.calls < MaxRegOps
    /\ IF AcceptsSource(disk[path].kind)
       THEN /\ sources' = RecordedSources(sources, path, prefix)
            /\ components' = DiscoverFrom(components, path, prefix, disk)
            /\ UNCHANGED warned
       ELSE /\ warned' = Append(warned,
                  Warning(IF disk[path].kind = "missing" THEN "does not exist"
                          ELSE "is not a directory", path))
            /\ UNCHANGED <<sources, components>>
    /\ regop' = RegOp("add_source", Source(path, prefix), PyNone)
    /\ UNCHANGED <<disk, probe, answer, handlerVars, toolVars>>

\* 194: self.components.clear()
\* The mutant: refresh without the clear.
RefreshStartKept(comps) == comps

RefreshStart(comps) == EmptyMap

\* 192-195
Refresh ==
    /\ regop.calls < MaxRegOps
    /\ components' = Discover(RefreshStart(components), sources, disk)
    /\ regop' = RegOp("refresh", PyNone, PyNone)
    /\ UNCHANGED <<sources, warned, disk, probe, answer, handlerVars, toolVars>>

\* base.py:115-121: one dict per key of registry.components.
ListBundles ==
    /\ regop.op # "list_bundles"
    /\ regop' = [RegOp("list_bundles", PyNone, {[name |-> n] : n \in DOMAIN components})
                   EXCEPT !.calls = regop.calls]
    /\ UNCHANGED <<components, sources, warned, disk, probe, answer, handlerVars, toolVars>>

\* A client asks for one of the names it was given.
GetListed(n) ==
    /\ regop.op = "list_bundles"
    /\ [name |-> n] \in regop.ret
    /\ regop' = [RegOp("get", n, RegistryGet(components, n)) EXCEPT !.calls = regop.calls]
    /\ UNCHANGED <<components, sources, warned, disk, probe, answer, handlerVars, toolVars>>

\* The tree changes while the application runs: entry files appear, a
\* source directory is removed with all it holds, a directory is created
\* where there was none.
Change(path, rel, file) == [path |-> path, rel |-> rel, file |-> file]
Appearing ==
    {Change(dirA, relNested, "index.tsx"), Change(dirA, relDotted, "index.ts"),
     Change(dirB, relDashed, "index.tsx")}

Changed(d) ==
    /\ disk' = d
    /\ regop' = [regop EXCEPT !.op = "disk"]
    /\ UNCHANGED <<components, sources, warned, probe, answer, handlerVars, toolVars>>

CreateEntry(path, rel, file) ==
    /\ disk[path].kind = "dir"
    /\ file \notin disk[path].tree[rel]
    /\ Changed([disk EXCEPT ![path].tree[rel] = @ \cup {file}])

RemoveTree(path) ==
    /\ disk[path].kind = "dir"
    /\ Changed([disk EXCEPT ![path] = NotADir("missing")])

CreateTree(path) ==
    /\ disk[path].kind = "missing"
    /\ Changed([disk EXCEPT ![path] = Dir([EmptyTree EXCEPT ![relWidget] = {"index.tsx"}])])

RegistryNext ==
    \/ \E src \in SourceArgs : AddSource(src.path, src.prefix)
    \/ Refresh
    \/ ListBundles
    \/ \E n \in DOMAIN components : GetListed(n)
    \/ \E c \in Appearing : CreateEntry(c.path, c.rel, c.file)
    \/ RemoveTree(dirB)
    \/ CreateTree(pathMissing)

SpecRegistry == InitRegistry /\ [][RegistryNext]_vars

(***************************************************************************)
(* What the tree says a source yields, read off the tree directly.         *)
(***************************************************************************)
SourceSet == {sources[i] : i \in DOMAIN sources}

\* The directories of a source that hold an entry file, the root excepted.
ComponentDirs(src) ==
    IF disk[src.path].kind # "dir" THEN {}
    ELSE {r \in RelDirs \ {relRoot} : disk[src.path].tree[r] \cap EntryFiles # {}}

Produces(src, x) == \E r \in ComponentDirs(src) : ComponentName(src.prefix, r) = x
Producers(x) == {i \in DOMAIN sources : Produces(sources[i], x)}

\* The last registry call scanned the tree as it is now.
JustScanned(op) == regop.op = op

nameWidget == Str(<<"w">>)
nameStoreWidget == Str(<<"s", ":", "w">>)

(***************************************************************************)
(* C11: when several registered sources produce the same name, the         *)
(* registry resolves it to the component of the source registered last:    *)
(* right after that source's add_source, and after every refresh.          *)
(***************************************************************************)
C11_LastSourceWins ==
    /\ JustScanned("refresh") =>
         \A x \in DOMAIN components :
             /\ Producers(x) # {}
             /\ components[x].package_dir[1] = sources[MaxOf(Producers(x))].path
    /\ (JustScanned("add_source") /\ disk[regop.arg.path].kind = "dir") =>
         /\ sources # <<>>
         /\ sources[Len(sources)] = regop.arg
         /\ \A r \in ComponentDirs(regop.arg) :
              LET x == ComponentName(regop.arg.prefix, r)
              IN  /\ x \in DOMAIN components
                  /\ components[x].package_dir[1] = regop.arg.path

\* dirA then dirB registered without prefix, both holding a widget: after a
\* refresh the widget is dirB's.
C11_Witness ==
    /\ JustScanned("refresh")
    /\ sources = <<Source(dirA, prefixNone), Source(dirB, prefixNone)>>
    /\ Producers(nameWidget) = {1, 2}
    /\ components[nameWidget].package_dir = <<dirB, relWidget>>

\* The names the recorded sources yield on the tree as it is.
ProducedNames ==
    {x \in {ComponentName(src.prefix, r) : src \in SourceSet, r \in RelDirs \ {relRoot}} :
        Producers(x) # {}}

\* c is the component of directory r of source src, tsx preferred.
IsComponentOf(c, x, src, r) ==
    /\ r \in ComponentDirs(src)
    /\ ComponentName(src.prefix, r) = x
    /\ c.name = x
    /\ c.package_dir = <<src.path, r>>
    /\ c.ts_path = <<src.path, r,
                     IF "index.tsx" \in disk[src.path].tree[r] THEN "index.tsx" ELSE "index.ts">>

(***************************************************************************)
(* C12: refresh leaves the list of sources as it was; after it the mapping *)
(* holds exactly the names the recorded sources yield on the tree as it is *)
(* now, each bound to the component of the last source that yields it      *)
(* (what was added on disk is there, what was deleted is gone); and a      *)
(* second refresh right after, the tree unchanged, changes nothing.        *)
(***************************************************************************)
C12_RefreshRebuilds ==
    /\ [][Refresh => sources' = sources]_vars
    /\ [](JustScanned("refresh") =>
            /\ DOMAIN components = ProducedNames
            /\ \A x \in DOMAIN components :
                 \E r \in RelDirs :
                     IsComponentOf(components[x], x, sources[MaxOf(Producers(x))], r))
    /\ [][(JustScanned("refresh") /\ Refresh) => components' = components]_vars

\* Two sources were registered, then dirB was removed and a nested
\* component appeared in dirA; the refresh dropped the one and found the other.
C12_Witness ==
    /\ JustScanned("refresh")
    /\ regop.calls = 3
    /\ sources = <<Source(dirA, prefixNone), Source(dirB, prefixStore)>>
    /\ disk[dirB].kind = "missing"
    /\ DOMAIN components = {nameWidget, Str(<<"n", ".", "w">>)}
    /\ components[Str(<<"n", ".", "w">>)].ts_path = <<dirA, relNested, "index.tsx">>

(***************************************************************************)
(* C13: add_source with a path that does not exist or is no directory      *)
(* returns normally, emits one warning about that path and leaves the      *)
(* sources and the components as they were; with a directory it appends    *)
(* (path, prefix) to the sources, warns of nothing and registers what the  *)
(* directory holds.  Every component comes from a recorded source, so a    *)
(* rejected path is never scanned later, even once it exists.              *)
(***************************************************************************)
C13_BadSourceIgnored ==
    /\ [][\A src \in SourceArgs :
            AddSource(src.path, src.prefix) =>
                /\ regop'.ret = PyNone
                /\ IF disk[src.path].kind = "dir"
                   THEN /\ sources' = Append(sources, src)
                        /\ warned' = warned
                        /\ \A r \in ComponentDirs(src) :
                             ComponentName(src.prefix, r) \in DOMAIN components'
                   ELSE /\ sources' = sources
                        /\ components' = components
                        /\ Len(warned') = Len(warned) + 1
                        /\ warned'[Len(warned')].path = src.path
                        /\ \A i \in DOMAIN warned : warned'[i] = warned[i]]_vars
    /\ [](\A x \in DOMAIN components :
             \E src \in SourceSet : components[x].package_dir[1] = src.path)
    /\ [](Len(warned) + Len(sources) <= regop.calls)

\* A path was rejected while it did not exist; it exists now and holds a
\* widget, and the refresh that followed did not look at it.
C13_Witness ==
    /\ JustScanned("refresh")
    /\ warned = <<Warning("does not exist", pathMissing)>>
    /\ disk[pathMissing].kind = "dir"
    /\ sources = <<Source(dirA, prefixNone)>>
    /\ DOMAIN components = {nameWidget}

(***************************************************************************)
(* C14, as claimed: every key of the components mapping, and so every name *)
(* list_bundles returns, is a non-empty string over [A-Za-z0-9_.:], and    *)
(* get of a listed name does not fail.                                     *)
(***************************************************************************)
C14_AsClaimed ==
    /\ \A x \in DOMAIN components : WellFormed(x)
    /\ (regop.op = "list_bundles") => \A b \in regop.ret : WellFormed(b.name)
    /\ (regop.op = "get") => regop.ret.kind # "raise"

(***************************************************************************)
(* The names the claim expects for the directories and prefixes at hand.   *)
(***************************************************************************)
DottedPath(rel) ==
    CASE rel = relWidget -> <<"w">>
      [] rel = relNested -> <<"n", ".", "w">>
      [] rel = relDotted -> <<"n", ".", "w">>
      [] rel = relDashed -> <<"x", "-", "y">>

ExpectedName(prefix, rel) ==
    Str(IF prefix = prefixNone THEN DottedPath(rel) ELSE prefix \o <<":">> \o DottedPath(rel))

(***************************************************************************)
(* C16: a component's key is the path of its directory below the source    *)
(* root with the separators turned into dots, with `prefix:` in front      *)
(* exactly when its source has a prefix; and when (dirA, "") and           *)
(* (dirB, "s") are both registered and both hold a widget, the keys "w"    *)
(* and "s:w" are both there, the latter bound to dirB's widget, in either  *)
(* order of registration and after refresh.                                *)
(***************************************************************************)
C16_NamesFromPaths ==
    /\ \A x \in DOMAIN components :
         /\ components[x].name = x
         /\ components[x].package_dir[2] \in RelDirs \ {relRoot}
         /\ \E src \in SourceSet :
              /\ components[x].package_dir[1] = src.path
              /\ x = ExpectedName(src.prefix, components[x].package_dir[2])
    /\ ( /\ JustScanned("refresh") \/ JustScanned("add_source")
         /\ {Source(dirA, prefixNone), Source(dirB, prefixStore)} \subseteq SourceSet
         /\ relWidget \in ComponentDirs(Source(dirA, prefixNone))
         /\ relWidget \in ComponentDirs(Source(dirB, prefixStore)) )
       => /\ {nameWidget, nameStoreWidget} \subseteq DOMAIN components
          /\ components[nameStoreWidget].package_dir = <<dirB, relWidget>>
          /\ components[nameWidget].package_dir[2] = relWidget

\* The prefixed source registered first, the unprefixed one second, then a refresh.
C16_Witness ==
    /\ JustScanned("refresh")
    /\ sources = <<Source(dirB, prefixStore), Source(dirA, prefixNone)>>
    /\ DOMAIN components = {nameWidget, nameStoreWidget}
    /\ components[nameWidget].package_dir = <<dirA, relWidget>>

(***************************************************************************)
(* The framework adapters' GET /bundles/{name}.js, applied to each way the *)
(* lookup and the build behind it can end.                                 *)
(***************************************************************************)
CACHE_CONTROL_IMMUTABLE == "public, max-age=31536000, immutable"

Frameworks == {"fastapi", "flask", "starlette", "django"}

\* The ways handlers.get_bundle ends: a result, None, or an exception.
BundleOutcomes ==
    {Value(Build(n, v)) : n \in RegisteredNames, v \in Mtimes}
        \cup {ReturnNone, Raise("ValueError")}
        \cup {Raise(e) : e \in BundlerFailures}

JavaScript(code) ==
    [status |-> 200, media_type |-> "application/javascript",
     cache_control |-> CACHE_CONTROL_IMMUTABLE, content |-> code]
JsonError(status) ==
    [status |-> status, media_type |-> "application/json",
     cache_control |-> PyNone, content |-> "detail"]
\* An exception the view lets through: the framework answers 500 itself.
Unhandled(e) ==
    [status |-> 500, media_type |-> "text/plain", cache_control |-> PyNone, content |-> e]

\* fastapi/__init__.py:46-63
FastapiGetBundle(out) ==
    IF out.kind = "raise"
    THEN IF out.val.exc = "ValueError" THEN JsonError(422)
         ELSE IF out.val.exc = "RuntimeError" THEN JsonError(500)
         ELSE Unhandled(out.val.exc)
    ELSE IF out.val = PyNone THEN JsonError(404)
    ELSE JavaScript(out.val.code)

\* flask/__init__.py:57-70
FlaskGetBundle(out) ==
    IF out.kind = "raise"
    THEN IF out.val.exc = "ValueError" THEN JsonError(422) ELSE Unhandled(out.val.exc)
    ELSE IF out.val = PyNone THEN JsonError(404)
    ELSE JavaScript(out.val.code)

\* starlette/__init__.py:65-87
StarletteGetBundle(out) ==
    IF out.kind = "raise"
    THEN IF out.val.exc = "ValueError" THEN JsonError(422) ELSE Unhandled(out.val.exc)
    ELSE IF out.val = PyNone THEN JsonError(404)
    ELSE JavaScript(out.val.code)

\* django/views.py:79-117: the same lookup and build, with RuntimeError
\* from the bundler turned into None and nothing else caught.
DjangoGetBundleResult(out) ==
    IF out.kind = "raise" /\ out.val.exc = "RuntimeError" THEN ReturnNone ELSE out

\* django/views.py:130-155
DjangoGetBundle(out) ==
    LET result == DjangoGetBundleResult(out)
    IN  IF result.kind = "raise" THEN Unhandled(result.val.exc)
        ELSE IF result.val = PyNone THEN JsonError(404)
        ELSE JavaScript(result.val.code)

AdapterGetBundle(fw, out) ==
    CASE fw = "fastapi" -> FastapiGetBundle(out)
      [] fw = "flask" -> FlaskGetBundle(out)
      [] fw = "starlette" -> StarletteGetBundle(out)
      [] fw = "django" -> DjangoGetBundle(out)

InitAdapters ==
    /\ components = [n \in RegisteredNames |-> Component(n)]
    /\ sources = <<>>
    /\ disk = <<>>
    /\ warned = <<>>
    /\ regop = PyNone
    /\ probe \in BundleOutcomes
    /\ answer = [fw \in Frameworks |-> PyNone]
    /\ HandlersIdle
    /\ ToolsIdle

\* One adapter serves the request.
Serve(fw) ==
    /\ answer[fw] = PyNone
    /\ answer' = [answer EXCEPT ![fw] = AdapterGetBundle(fw, probe)]
    /\ UNCHANGED <<components, sources, disk, warned, regop, probe, handlerVars, toolVars>>

AdaptersNext == \E fw \in Frameworks : Serve(fw)

SpecAdapters == InitAdapters /\ [][AdaptersNext]_vars

(***************************************************************************)
(* C15, as claimed: every adapter answers a result with 200,               *)
(* application/javascript and the immutable Cache-Control, an absent       *)
(* result with 404, an invalid name with 422 and a bundler failure with    *)
(* 500, so the four adapters agree on the status of every outcome.         *)
(***************************************************************************)
C15_AsClaimed ==
    /\ \A fw \in Frameworks :
         answer[fw] # PyNone =>
             /\ (probe.kind = "value" /\ probe.val # PyNone) =>
                    /\ answer[fw].status = 200
                    /\ answer[fw].media_type = "application/javascript"
                    /\ answer[fw].cache_control = "public, max-age=31536000, immutable"
                    /\ answer[fw].content = probe.val.code
             /\ probe = ReturnNone => answer[fw].status = 404
             /\ probe = Raise("ValueError") => answer[fw].status = 422
             /\ (probe.kind = "raise" /\ probe.val.exc \in BundlerFailures) =>
                    answer[fw].status = 500
    /\ \A f, g \in Frameworks :
         (answer[f] # PyNone /\ answer[g] # PyNone) => answer[f].status = answer[g].status

(***************************************************************************)
(* C17, as claimed: whatever the state of the sidecar schema.json, reading *)
(* Component.metadata inside get_metadata yields a dict and never an       *)
(* exception: a get_metadata call that got as far as the sidecar and no    *)
(* further did not end by raising, and one that went on holds a dict.      *)
(***************************************************************************)
C17_AsClaimed ==
    \A t \in SeqThreads :
        (call[t].op = "get_metadata" /\ "sidecar" \in effects[t]) =>
            /\ effects[t] = {"sidecar"} => outcome[t].kind # "raise"
            /\ loc[t].metadata # PyNone

(***************************************************************************)
(* bundler.py:195-232  _rewrite_source_map_sources.                        *)
(*                                                                         *)
(* A JavaScript text is a sequence of tokens: pieces of text, occurrences  *)
(* of the source-map marker, and base64 payloads.  A payload, the bytes it *)
(* encodes, the text those bytes spell and the JSON value that text        *)
(* denotes are kept apart, so that decoding can fail at each level and     *)
(* re-encoding need not give back the characters that were read.  A string *)
(* is the sequence of its characters.                                      *)
(***************************************************************************)
JObject(fields) == [type |-> "object", fields |-> fields, items |-> <<>>, str |-> <<>>]
JArray(items) == [type |-> "array", fields |-> <<>>, items |-> items, str |-> <<>>]
JString(cs) == [type |-> "string", fields |-> <<>>, items |-> <<>>, str |-> cs]
JNumber == [type |-> "number", fields |-> <<>>, items |-> <<>>, str |-> <<>>]
JNull == [type |-> "null", fields |-> <<>>, items |-> <<>>, str |-> <<>>]
Field(key, value) == [key |-> key, value |-> value]

\* Text that is JSON (written in some style of spacing) or is not.
JsonText(value, style) == [json |-> TRUE, value |-> value, style |-> style]
NotJson == [json |-> FALSE, value |-> JNull, style |-> "none"]
\* Bytes that are UTF-8 for a text, or are not UTF-8.
Utf8(text) == [utf8 |-> TRUE, text |-> text]
NotUtf8 == [utf8 |-> FALSE, text |-> NotJson]
\* Characters that are base64 for some bytes (possibly followed by characters
\* outside the alphabet, which b64decode skips), or that do not decode.
Base64(bytes, trailing) == [b64 |-> TRUE, bytes |-> bytes, trailing |-> trailing]
NotBase64 == [b64 |-> FALSE, bytes |-> NotUtf8, trailing |-> ""]

TextTok(cs) == [tok |-> "text", payload |-> PyNone, text |-> cs]
MarkerTok == [tok |-> "marker", payload |-> PyNone, text |-> <<>>]
PayloadTok(p) == [tok |-> "payload", payload |-> p, text |-> <<>>]

\* 214: base64.b64decode(b64_map) of what follows the last marker.
B64Decode(toks) ==
    IF toks = <<>> THEN Value(Utf8(NotJson))
    ELSE IF Len(toks) = 1 /\ toks[1].tok = "payload" /\ toks[1].payload.b64
         THEN Value(toks[1].payload.bytes)
         ELSE Raise("binascii.Error")
\* 214: .decode("utf-8")
Utf8Decode(bytes) == IF bytes.utf8 THEN Value(bytes.text) ELSE Raise("UnicodeDecodeError")
\* 215: json.loads
JsonLoads(text) == IF text.json THEN Value(text.value) ELSE Raise("JSONDecodeError")
\* 229-230: json.dumps in Python's own spacing, encoded without anything trailing.
JsonDumps(value) == JsonText(value, "python")
B64Encode(bytes) == Base64(bytes, "")

\* 216: `except (ValueError, json.JSONDecodeError)`.
CaughtByRewrite == {"binascii.Error", "UnicodeDecodeError", "JSONDecodeError", "ValueError"}

\* Path(source).name: what follows the last slash, trailing slashes dropped.
RECURSIVE Stripped(_)
Stripped(cs) ==
    IF cs # <<>> /\ cs[Len(cs)] = "/" THEN Stripped(SubSeq(cs, 1, Len(cs) - 1)) ELSE cs
LastSlash(cs) == MaxOf({0} \cup {i \in DOMAIN cs : cs[i] = "/"})
PathName(cs) ==
    LET p == Stripped(cs)
        n == SubSeq(p, LastSlash(p) + 1, Len(p))
    IN  IF n = <<".">> THEN <<>> ELSE n

\* `"sources" in source_map`, for each type json.loads can return.
sourcesKey == <<"s", "o", "u", "r", "c", "e", "s">>
Contains(cs, pat) ==
    \E i \in 0..(Len(cs) - Len(pat)) : SubSeq(cs, i + 1, i + Len(pat)) = pat
HasSources(v) ==
    CASE v.type = "object" -> Value(\E i \in DOMAIN v.fields : v.fields[i].key = sourcesKey)
      [] v.type = "array" -> Value(\E i \in DOMAIN v.items : v.items[i] = JString(sourcesKey))
      [] v.type = "string" -> Value(Contains(v.str, sourcesKey))
      [] OTHER -> Raise("TypeError")

\* source_map["sources"]
GetSources(v) ==
    IF v.type = "object"
    THEN Value(v.fields[CHOOSE i \in DOMAIN v.fields : v.fields[i].key = sourcesKey].value)
    ELSE Raise("TypeError")

\* `for source in ...`: the items of a list, the characters of a string.
Iterate(v) ==
    CASE v.type = "array" -> Value(v.items)
      [] v.type = "string" -> Value([i \in DOMAIN v.str |-> JString(<<v.str[i]>>)])
      [] v.type = "object" -> Value([i \in DOMAIN v.fields |-> JString(v.fields[i].key)])
      [] OTHER -> Raise("TypeError")

componentScheme == <<"c", "o", "m", "p", "o", "n", "e", "n", "t", ":", "/", "/">>
\* 224-225: f"component://{component_name}/{source_name}"
\* The mutant: the whole source path kept.
NewSourceFullPath(component_name, source) ==
    JString(componentScheme \o component_name \o <<"/">> \o source.str)

NewSource(component_name, source) ==
    JString(componentScheme \o component_name \o <<"/">> \o PathName(source.str))

\* 226: source_map["sources"] = new_sources
SetSources(v, new) ==
    JObject([i \in DOMAIN v.fields |->
                IF v.fields[i].key = sourcesKey THEN Field(sourcesKey, new) ELSE v.fields[i]])

LastMarker(js_code) == MaxOf({0} \cup {i \in DOMAIN js_code : js_code[i].tok = "marker"})

\* 220-226: the sources of a decoded map rewritten; anything that is not
\* caught on the way is raised.
RewrittenMap(source_map, component_name) ==
    LET has == HasSources(source_map) IN
    IF has.kind = "raise" THEN has
    ELSE IF ~has.val THEN Value(source_map)
    ELSE LET got == GetSources(source_map) IN
         IF got.kind = "raise" THEN got
         ELSE LET it == Iterate(got.val) IN
              IF it.kind = "raise" THEN it
              ELSE IF \E i \in DOMAIN it.val : it.val[i].type # "string"
                   THEN Raise("TypeError")
                   ELSE Value(SetSources(source_map,
                            JArray([i \in DOMAIN it.val |->
                                       NewSource(component_name, it.val[i])])))

\* 213-215: the payload decoded down to the JSON value.
DecodedMap(b64_map) ==
    LET bytes == B64Decode(b64_map) IN
    IF bytes.kind = "raise" THEN bytes
    ELSE LET text == Utf8Decode(bytes.val) IN
         IF text.kind = "raise" THEN text ELSE JsonLoads(text.val)

\* 195-232
RewriteSourceMapSources(js_code, component_name) ==
    IF LastMarker(js_code) = 0 THEN Value(js_code)
    ELSE LET k == LastMarker(js_code)
             code_part == SubSeq(js_code, 1, k - 1)
             b64_map == SubSeq(js_code, k + 1, Len(js_code))
             source_map == DecodedMap(b64_map)
         IN  IF source_map.kind = "raise"
             THEN IF source_map.val.exc \in CaughtByRewrite THEN Value(js_code)
                  ELSE source_map
             ELSE LET new == RewrittenMap(source_map.val, component_name) IN
                  IF new.kind = "raise" THEN new
                  ELSE Value(code_part \o
                             <<MarkerTok, PayloadTok(B64Encode(Utf8(JsonDumps(new.val))))>>)

(***************************************************************************)
(* The inputs: source maps as esbuild writes them, and payloads that are   *)
(* damaged or are no source map at all.                                    *)
(***************************************************************************)
srcPathX == <<".", ".", "/", "s", "/", "x", ".", "t", "s", "x">>
otherPathX == <<"l", "/", "x", ".", "t", "s", "x">>
srcPathU == <<"u", ".", "t", "s">>

SourceMap(srcs) ==
    JObject(<<Field(<<"v">>, JNumber),
              Field(sourcesKey, srcs),
              Field(<<"c">>, JArray(<<JString(<<"e">>)>>)),
              Field(<<"m">>, JString(<<"A">>)),
              Field(<<"n">>, JArray(<<JString(<<"f">>)>>))>>)

mapTwoSources == SourceMap(JArray(<<JString(srcPathX), JString(srcPathU)>>))
mapOtherDir == SourceMap(JArray(<<JString(otherPathX), JString(srcPathU)>>))
mapNoSourcesKey == JObject(<<Field(<<"v">>, JNumber), Field(<<"m">>, JString(<<"A">>))>>)

\* Objects whose sources are a list of strings, or that have none.
SourceMaps == {mapTwoSources, mapOtherDir, mapNoSourcesKey, SourceMap(JArray(<<>>))}

\* Other JSON values a payload may hold.
ForeignValues ==
    {SourceMap(JArray(<<JString(srcPathU), JNull>>)), SourceMap(JNumber),
     SourceMap(JString(<<"a", "b">>)), JNumber, JNull,
     JArray(<<JString(<<"x">>)>>), JArray(<<JString(sourcesKey)>>),
     JString(<<"a">>), JString(sourcesKey)}

Encoded(value, style, trailing) == PayloadTok(Base64(Utf8(JsonText(value, style)), trailing))

codeText == TextTok(<<"c", ";">>)
JsCode(payload) == <<codeText, MarkerTok, payload>>

\* What esbuild writes with --sourcemap=inline.
EsbuildOutputs == {JsCode(Encoded(m, "esbuild", "\n")) : m \in {mapTwoSources, mapOtherDir}}

JsCodes ==
    EsbuildOutputs
      \cup {JsCode(Encoded(m, "python", "")) : m \in SourceMaps}
      \cup {JsCode(Encoded(v, "python", "")) : v \in ForeignValues}
      \cup {JsCode(PayloadTok(Base64(NotUtf8, ""))),
            JsCode(Encoded(mapNoSourcesKey, "esbuild", "")),
            JsCode(PayloadTok(Base64(Utf8(NotJson), ""))),
            JsCode(PayloadTok(NotBase64)),
            JsCode(TextTok(<<"!">>)),
            <<codeText, MarkerTok>>,
            <<codeText>>,
            <<codeText, MarkerTok, TextTok(<<"z">>), MarkerTok,
              Encoded(mapTwoSources, "esbuild", "")>>}

ComponentNames == {<<"n">>, <<"t", ".", "s">>}

(***************************************************************************)
(* bundler.py:235-299 bundle_component.  What esbuild does is an input:    *)
(* it is missing, it times out, it exits non-zero, or it writes a bundle.  *)
(***************************************************************************)
MaxInvocations == 2

NoName == [given |-> FALSE, chars |-> <<>>]
Named(cs) == [given |-> TRUE, chars |-> cs]
tsStem == <<"i", "n", "d", "e", "x">>

EsbuildRun(status, js_code) == [status |-> status, js_code |-> js_code]
EsbuildRuns ==
    {EsbuildRun("not_found", <<>>), EsbuildRun("timeout", <<>>), EsbuildRun("failed", <<>>),
     EsbuildRun("spawn_failed", <<>>), EsbuildRun("read_failed", <<>>)}
      \cup {EsbuildRun("ok", c) : c \in EsbuildOutputs}

\* 257-258
EffectiveName(component_name) ==
    IF component_name.given THEN component_name.chars ELSE tsStem

\* 297; the mutant: the bundler's output handed on as it is.
BundledCodeRaw(js_code, component_name) == Value(js_code)

BundledCode(js_code, component_name) == RewriteSourceMapSources(js_code, component_name)

\* The rewritten code wrapped with its hash.
Wrapped(code) == BundleResult(code)

BundleComponentResult(run, component_name) ==
    CASE run.status = "not_found" -> Raise("BundlerNotFoundError")
      [] run.status \in {"timeout", "failed"} -> Raise("RuntimeError")
      [] run.status \in {"spawn_failed", "read_failed"} -> Raise("OSError")
      [] OTHER ->
           LET js_code == BundledCode(run.js_code, EffectiveName(component_name)) IN
           IF js_code.kind = "raise" THEN js_code ELSE Value(Wrapped(js_code.val))

\* 260-262: the temporary file is created once esbuild has been found.
TempCreated(run) == run.status # "not_found"
\* 283, 287, 294: the unlink on the timeout, on a non-zero exit, and after
\* the read whether it succeeded or not.  Nothing catches the OSError of a
\* subprocess that could not be started (281).
TempUnlinked(run) == run.status \in {"timeout", "failed", "ok", "read_failed"}
TempLeft(run, file) == IF TempCreated(run) /\ ~TempUnlinked(run) THEN {file} ELSE {}

Invocation(op, input, name, ret) == [op |-> op, input |-> input, name |-> name, ret |-> ret]

InitBundler ==
    /\ components = [n \in RegisteredNames |-> Component(n)]
    /\ sources = <<>>
    /\ disk = <<>>
    /\ warned = <<>>
    /\ regop = PyNone
    /\ probe = PyNone
    /\ answer = <<>>
    /\ HandlersIdle
    /\ ToolsIdle

bundlerFrame == <<components, sources, disk, warned, regop, probe, handlerVars,
                  env, esbuild_path_cache, scan>>

RewriteCall(js_code, component_name) ==
    /\ Len(answer) < MaxInvocations
    /\ answer' = Append(answer, Invocation("rewrite", js_code, component_name,
                                           RewriteSourceMapSources(js_code, component_name)))
    /\ UNCHANGED <<bundlerFrame, tmpfiles>>

BundleComponent(run, component_name) ==
    /\ Len(answer) < MaxInvocations
    /\ answer' = Append(answer, Invocation("bundle", run, EffectiveName(component_name),
                                           BundleComponentResult(run, component_name)))
    /\ tmpfiles' = tmpfiles \cup TempLeft(run, Len(answer) + 1)
    /\ UNCHANGED bundlerFrame

BundlerNext ==
    \/ \E c \in JsCodes, n \in ComponentNames : RewriteCall(c, n)
    \/ \E r \in EsbuildRuns, n \in {NoName} \cup {Named(m) : m \in ComponentNames} :
         BundleComponent(r, n)

SpecBundler == InitBundler /\ [][BundlerNext]_vars

\* What the claims read from a code: its parts around the last marker and
\* the map its payload decodes to.
CodePart(js_code) == SubSeq(js_code, 1, LastMarker(js_code) - 1)
MapOf(js_code) == DecodedMap(SubSeq(js_code, LastMarker(js_code) + 1, Len(js_code)))
HasMarker(js_code) == LastMarker(js_code) > 0
IsStringList(v) ==
    v.type = "array" /\ \A i \in DOMAIN v.items : v.items[i].type = "string"
\* A source-map object: a JSON object whose sources are a list of strings.
IsSourceMapObject(v) ==
    /\ v.type = "object"
    /\ HasSources(v).val
    /\ IsStringList(GetSources(v).val)
Rewrites == {i \in DOMAIN answer : answer[i].op = "rewrite"}
Bundles == {i \in DOMAIN answer : answer[i].op = "bundle"}

(***************************************************************************)
(* C18, as claimed: _rewrite_source_map_sources never raises, and returns  *)
(* its input unchanged when the marker is absent, when the payload fails   *)
(* base64 decoding, text decoding or JSON parsing, and when the payload    *)
(* decodes to something that is not a source-map object with a list of     *)
(* string sources.                                                         *)
(***************************************************************************)
C18_AsClaimed ==
    \A i \in Rewrites :
       LET inv == answer[i] IN
       /\ inv.ret.kind = "value"
       /\ (~HasMarker(inv.input)
             \/ MapOf(inv.input).kind = "raise"
             \/ ~IsSourceMapObject(MapOf(inv.input).val))
            => inv.ret.val = inv.input

\* The rewrite calls whose input ends with an inline map that is a JSON object.
ObjectRewrites ==
    {i \in Rewrites : /\ HasMarker(answer[i].input)
                      /\ MapOf(answer[i].input).kind = "value"
                      /\ MapOf(answer[i].input).val.type = "object"}
SourcesOf(v) == GetSources(v).val
OtherFieldsEqual(old, new) ==
    /\ new.type = "object"
    /\ Len(new.fields) = Len(old.fields)
    /\ \A k \in DOMAIN old.fields :
         /\ new.fields[k].key = old.fields[k].key
         /\ old.fields[k].key # sourcesKey => new.fields[k].value = old.fields[k].value
SourcesRewritten(old, new, n) ==
    HasSources(old).val =>
      /\ HasSources(new).val
      /\ SourcesOf(new).type = "array"
      /\ Len(SourcesOf(new).items) = Len(SourcesOf(old).items)
      /\ \A k \in DOMAIN SourcesOf(old).items :
           SourcesOf(new).items[k] =
             JString(componentScheme \o n \o <<"/">> \o PathName(SourcesOf(old).items[k].str))
\* The result of the call decodes to the input's map with only the sources
\* replaced, behind the same code.
RoundTrip(inv) ==
    /\ inv.ret.kind = "value"
    /\ IF inv.ret.kind # "value" THEN FALSE
       ELSE /\ HasMarker(inv.ret.val)
            /\ CodePart(inv.ret.val) = CodePart(inv.input)
            /\ MapOf(inv.ret.val).kind = "value"
            /\ OtherFieldsEqual(MapOf(inv.input).val, MapOf(inv.ret.val).val)
            /\ SourcesRewritten(MapOf(inv.input).val, MapOf(inv.ret.val).val, inv.name)

(***************************************************************************)
(* C19, as claimed: for a code that ends with an inline map whose payload  *)
(* is a JSON object, the rewritten code decodes to a map whose sources[i]  *)
(* is component://n/ followed by the base name of the original sources[i], *)
(* in the same number and order, whose other fields equal the original's,  *)
(* and the code before the marker is unchanged.                            *)
(***************************************************************************)
C19_AsClaimed == \A i \in ObjectRewrites : RoundTrip(answer[i])

\* The same round trip, for the maps whose sources are a list of strings
\* or that have no sources.
StringSourceRewrites ==
    {i \in ObjectRewrites :
        HasSources(MapOf(answer[i].input).val).val
          => IsStringList(SourcesOf(MapOf(answer[i].input).val))}
C19_RoundTripOfStringSources == \A i \in StringSourceRewrites : RoundTrip(answer[i])
C19_TwoSourcesRewritten ==
    \E i \in StringSourceRewrites :
       /\ MapOf(answer[i].input).val = mapTwoSources
       /\ Len(answer[i].input) > 3
       /\ answer[i].name = <<"t", ".", "s">>

SuccessfulBundles == {i \in Bundles : answer[i].ret.kind = "value"}
\* A source as the rewriter writes it for component n: component://n/ and
\* a file name.
IsComponentUrl(source, n) ==
    LET head == componentScheme \o n \o <<"/">> IN
    /\ source.type = "string"
    /\ Len(source.str) >= Len(head)
    /\ SubSeq(source.str, 1, Len(head)) = head
    /\ \A k \in (Len(head) + 1)..Len(source.str) : source.str[k] # "/"

C21_AsClaimed ==
    \A i \in Bundles : TempCreated(answer[i].input) => i \notin tmpfiles

\* The exits on which the file is removed.
C21_RemovedWhenEsbuildRan ==
    \A i \in Bundles : answer[i].input.status # "spawn_failed" => i \notin tmpfiles

(***************************************************************************)
(* bundler.py:19-31, 61-148  _find_esbuild, its memo and                   *)
(* clear_esbuild_cache, on a machine where esbuild installations come and  *)
(* go (sys.platform is neither win32 nor darwin).                          *)
(***************************************************************************)
\* 118-122: the well-known global locations, in the order they are tried.
CommonPaths == <<"~/.npm-global/bin/esbuild", "~/.local/bin/esbuild", "/usr/local/bin/esbuild">>
\* 63-80: npx is not on PATH, or its version probe exits with 0, exits with
\* something else, runs into the 30 s timeout, or cannot be started.
NpxStates == {"absent", "ok", "nonzero", "timeout", "oserror"}
Envs ==
    [frontend : BOOLEAN, which : BOOLEAN,
     common : SUBSET {i \in DOMAIN CommonPaths : TRUE}, npx : NpxStates]
NothingInstalled == [frontend |-> FALSE, which |-> FALSE, common |-> {}, npx |-> "absent"]

Path(p) == [path |-> p]

\* 61-80
CheckNpxEsbuild(e) == IF e.npx = "ok" THEN Path("npx --yes esbuild") ELSE PyNone

\* 104-148: the lookups, in their order.
Resolve(e) ==
    IF e.frontend THEN Value(Path("node_modules/.bin/esbuild"))
    ELSE IF e.which THEN Value(Path("esbuild on PATH"))
    ELSE IF e.common # {} THEN Value(Path(CommonPaths[CHOOSE i \in e.common :
                                                        \A j \in e.common : i <= j]))
    ELSE IF CheckNpxEsbuild(e) # PyNone THEN Value(CheckNpxEsbuild(e))
    ELSE Raise("BundlerNotFoundError")

\* 101: if _esbuild_path_cache is not None
\* The mutant: the memo never consulted.
MemoHitNever(memo) == FALSE

MemoHit(memo) == memo # PyNone

FindCall(op, ret, probed) == [op |-> op, ret |-> ret, probed |-> probed]

InitFind ==
    /\ components = EmptyMap
    /\ sources = <<>>
    /\ disk = <<>>
    /\ warned = <<>>
    /\ regop = PyNone
    /\ probe = PyNone
    /\ answer = FindCall("none", ReturnNone, FALSE)
    /\ env = NothingInstalled
    /\ esbuild_path_cache = PyNone
    /\ tmpfiles = {}
    /\ scan = PyNone
    /\ HandlersIdle

findFrame == <<components, sources, disk, warned, regop, probe, handlerVars, tmpfiles, scan>>

\* 83-148
FindEsbuild ==
    /\ IF MemoHit(esbuild_path_cache)
       THEN /\ answer' = FindCall("find", Value(esbuild_path_cache), FALSE)
            /\ UNCHANGED esbuild_path_cache
       ELSE /\ answer' = FindCall("find", Resolve(env), TRUE)
            /\ esbuild_path_cache' =
                 IF Resolve(env).kind = "value" THEN Resolve(env).val ELSE PyNone
    /\ UNCHANGED <<findFrame, env>>

\* 28-31
ClearEsbuildCache ==
    /\ esbuild_path_cache' = PyNone
    /\ answer' = FindCall("clear", ReturnNone, FALSE)
    /\ UNCHANGED <<findFrame, env>>

\* Something is installed or removed.
EnvChange(e) ==
    /\ e # env
    /\ env' = e
    /\ UNCHANGED <<findFrame, esbuild_path_cache, answer>>

FindNext ==
    \/ FindEsbuild
    \/ ClearEsbuildCache
    \/ \E e \in Envs : EnvChange(e)

SpecFind == InitFind /\ [][FindNext]_vars

\* The candidates in the order of the claim, and which of them the
\* environment offers.
Candidates ==
    <<"node_modules/.bin/esbuild", "esbuild on PATH">> \o CommonPaths \o <<"npx --yes esbuild">>
Offered(e, k) ==
    CASE k = 1 -> e.frontend
      [] k = 2 -> e.which
      [] k = Len(Candidates) -> e.npx = "ok"
      [] OTHER -> (k - 2) \in e.common
FirstOffered(e) ==
    IF \E k \in DOMAIN Candidates : Offered(e, k)
    THEN Value(Path(Candidates[CHOOSE k \in DOMAIN Candidates :
                       /\ Offered(e, k)
                       /\ \A j \in 1..(k - 1) : ~Offered(e, j)]))
    ELSE Raise("BundlerNotFoundError")

(***************************************************************************)
(* C22: with nothing memoized _find_esbuild returns the first candidate    *)
(* the environment offers in the order project-local, PATH, well-known     *)
(* locations, npx (only when its version probe succeeds), memoizes it, and *)
(* raises BundlerNotFoundError when there is none; with a value memoized   *)
(* it returns that value without probing, whatever the environment has     *)
(* become; only clear_esbuild_cache empties the memo, after which the next *)
(* call resolves afresh.                                                   *)
(***************************************************************************)
C22_FirstCandidateMemoized ==
    /\ [][(FindEsbuild /\ esbuild_path_cache = PyNone) =>
            /\ answer'.ret = FirstOffered(env)
            /\ answer'.probed
            /\ esbuild_path_cache' =
                 (IF answer'.ret.kind = "value" THEN answer'.ret.val ELSE PyNone)]_vars
    /\ [][(FindEsbuild /\ esbuild_path_cache # PyNone) =>
            /\ answer'.ret = Value(esbuild_path_cache)
            /\ ~answer'.probed
            /\ esbuild_path_cache' = esbuild_path_cache]_vars
    /\ [][(esbuild_path_cache # PyNone /\ esbuild_path_cache' # esbuild_path_cache) =>
            (ClearEsbuildCache /\ esbuild_path_cache' = PyNone)]_vars

\* The project-local binary was resolved and has since been removed, with
\* nothing else installed: the call still returns it, without a probe.
C22_Witness ==
    /\ answer = FindCall("find", Value(Path("node_modules/.bin/esbuild")), FALSE)
    /\ env = NothingInstalled

(***************************************************************************)
(* Two request threads asking for the same component while its entry file  *)
(* is being edited, with the history kept.                                 *)
(***************************************************************************)
RaceNext ==
    \/ \E t \in Threads :
          \/ CallGetBundle(t, nameA)
          \/ \E n \in {nameA, PyNone} : CallClearCache(t, n)
          \/ GetBundleStep(t)
    \/ Touch(TsPath(nameA))

SpecRace == Init /\ [][RaceNext]_vars

\* Thread t has finished a get_bundle of `name` in which it ran the bundler
\* and got a result.
BuiltIt(t, name) ==
    /\ pc[t] = "done"
    /\ call[t] = [op |-> "get_bundle", name |-> name]
    /\ "bundler" \in effects[t]
    /\ loc[t].result # PyNone
NoClearIn(log) == \A i \in DOMAIN log : log[i].kind # "clear"

(***************************************************************************)
(* C23: two concurrent get_bundle calls for one name can both miss and     *)
(* both run the bundler (nothing makes the second wait for the first).     *)
(* When both have finished, the cache holds for that name the one entry    *)
(* that the later of the two cache sets wrote, which is one caller's       *)
(* (result, mtime), and each caller returns the result of its own build.   *)
(***************************************************************************)
C23_BothBuildLastSetWins ==
    (BuiltIt("t1", nameA) /\ BuiltIt("t2", nameA) /\ NoClearIn(events)) =>
        /\ nameA \in DOMAIN cache
        /\ cache[nameA] = HistoryEntry(events, nameA)
        /\ \E t \in Threads : cache[nameA] = CachedBundle(loc[t].result, loc[t].mtime)
        /\ \A t \in Threads : outcome[t] = Value(loc[t].result)

\* Both callers saw the same mtime, both built, and they built different
\* versions of the file; the cache has what the second writer stored.
C23_Witness ==
    /\ BuiltIt("t1", nameA) /\ BuiltIt("t2", nameA) /\ NoClearIn(events)
    /\ loc["t1"].mtime = loc["t2"].mtime
    /\ loc["t1"].result # loc["t2"].result
    /\ Len(SelectSeq(events, LAMBDA e : e.kind = "invoke")) = 2
    /\ cache[nameA].result = loc["t1"].result

SetEvents == {i \in DOMAIN events : events[i].kind = "set"}
Storing(t) ==
    /\ pc[t] \in {"lock_acquire", "cs", "lock_release"}
    /\ cop[t].kind = "set"
    /\ call[t].op = "get_bundle"

HitAtRead(t) ==
    /\ GetDone(t)
    /\ call[t].op = "get_bundle"
    /\ cret[t] # PyNone
\* Thread t's get_bundle has returned what it found in the cache.
ReturnedHit(t) ==
    /\ pc[t] = "done"
    /\ call[t].op = "get_bundle"
    /\ "hit" \in effects[t]

(***************************************************************************)
(* C26: under any interleaving of get_bundle calls, clear_cache calls and  *)
(* edits of the entry file, a get_bundle that takes its result from the    *)
(* cache takes an entry stored under the very mtime its own stat returned  *)
(* in this call; an entry stored under another mtime is never a hit.       *)
(***************************************************************************)
C26_HitOnlyOnObservedMtime ==
    \A t \in Threads :
       /\ HitAtRead(t) =>
            /\ call[t].name \in DOMAIN cache
            /\ cache[call[t].name] = CachedBundle(cret[t], loc[t].mtime)
       /\ ReturnedHit(t) =>
            \E i \in SetEvents :
               /\ events[i].name = call[t].name
               /\ events[i].mtime = loc[t].mtime
               /\ outcome[t] = Value(events[i].result)

\* A caller that saw mtime 2 hits the entry stored for mtime 2 while a
\* slower caller that saw mtime 1 is still in the bundler.
C26_Witness ==
    \E t, u \in Threads :
       /\ HitAtRead(t)
       /\ loc[t].mtime = 2
       /\ pc[u] = "gb_bundling"
       /\ loc[u].mtime = 1

\* The slower build has overwritten the newer entry, and the next caller,
\* seeing mtime 2, misses.
C26_OverwriteThenMiss ==
    /\ \E i, j \in SetEvents : i < j /\ events[i].mtime = 2 /\ events[j].mtime = 1
    /\ \E t \in Threads :
          /\ GetDone(t)
          /\ cop[t].mtime = 2
          /\ cret[t] = PyNone
          /\ nameA \in DOMAIN cache

(***************************************************************************)
(* The handlers serving from a registry that is still being configured:    *)
(* add_source and refresh run between (and during) requests for the        *)
(* widget, which dirA and dirB both hold.                                  *)
(***************************************************************************)
widgetA == <<dirA, relWidget, "index.tsx">>
widgetB == <<dirB, relWidget, "index.ts">>

InitServe ==
    /\ components = EmptyMap
    /\ sources = <<>>
    /\ warned = <<>>
    /\ disk = [p \in SourcePaths |->
                 IF p = dirA
                 THEN Dir([EmptyTree EXCEPT ![relWidget] = EntryFiles,
                                            ![relRoot] = {"index.tsx"}])
                 ELSE IF p = dirB
                 THEN Dir([EmptyTree EXCEPT ![relWidget] = {"index.ts"}])
                 ELSE IF p = pathFile THEN NotADir("file") ELSE NotADir("missing")]
    /\ regop = NoRegOp
    /\ probe = PyNone
    /\ answer = PyNone
    /\ ToolsIdle
    /\ files = [p \in {widgetA, widgetB} |-> [exists |-> TRUE, mtime |-> 1]]
    /\ cache = EmptyMap
    /\ lock = NoThread
    /\ pc = [t \in Threads |-> "idle"]
    /\ call = [t \in Threads |-> NoCall]
    /\ cop = [t \in Threads |-> NoCop]
    /\ cret = [t \in Threads |-> PyNone]
    /\ cont = [t \in Threads |-> "idle"]
    /\ loc = [t \in Threads |-> InitLoc]
    /\ effects = [t \in Threads |-> {}]
    /\ outcome = [t \in Threads |-> Pending]
    /\ events = <<>>
    /\ recording = FALSE

ServeNext ==
    \/ \E p \in {dirA, dirB} : AddSource(p, prefixNone)
    \/ Refresh
    \/ \E t \in SeqThreads :
          \/ CallGetBundle(t, nameWidget)
          \/ CallClearCache(t, PyNone)
          \/ GetBundleStep(t)
    \/ \E p \in {widgetA, widgetB} : Touch(p)

SpecServe == InitServe /\ [][ServeNext]_vars

(***************************************************************************)
(* C27, as claimed: a result returned by get_bundle(name) was built from   *)
(* the entry file that the registry resolved `name` to in this call, also  *)
(* after add_source or refresh has bound the name to another directory.    *)
(***************************************************************************)
C27_AsClaimed ==
    \A t \in SeqThreads :
       ( /\ pc[t] = "done"
         /\ call[t].op = "get_bundle"
         /\ outcome[t].kind = "value"
         /\ loc[t].component # PyNone
         /\ loc[t].mtime # 0 )
       => outcome[t].val.code[1] = loc[t].component.ts_path

\* The entry file of `name` is as it was at the start, and the cache has
\* never been cleared.
Undisturbed(name) ==
    /\ files[TsPath(name)] = [exists |-> TRUE, mtime |-> 1]
    /\ NoClearIn(events)
InvokesOf(name) == {i \in DOMAIN events : events[i].kind = "invoke" /\ events[i].name = name}
SetsOf(name) == {i \in SetEvents : events[i].name = name}
\* The sequential caller's call has ended with a value.
Returned(t, op, name) ==
    /\ pc[t] = "done"
    /\ call[t] = [op |-> op, name |-> name]
    /\ outcome[t].kind = "value"
    /\ outcome[t].val # PyNone

(***************************************************************************)
(* C28, as claimed: in a sequential mix of get_metadata(name) and          *)
(* get_bundle(name) calls, the entry file unchanged and the cache never    *)
(* cleared, the bundler is invoked exactly once in total.                  *)
(***************************************************************************)
C28_AsClaimed ==
    \A n \in RegisteredNames :
       Undisturbed(n) => Cardinality(InvokesOf(n)) <= 1

(***************************************************************************)
(* C28, amended: get_metadata and get_bundle share the cache and the build *)
(* path.  With the entry file unchanged and the cache never cleared, at    *)
(* most one build succeeds and is stored, by whichever of the two reached  *)
(* the build first; the bundler is never invoked after that; every later   *)
(* get_bundle returns that result and every later get_metadata carries its *)
(* hash.  A build that fails stores nothing, so the next call invokes the  *)
(* bundler again.                                                          *)
(***************************************************************************)
C28_OneStoredBuildShared ==
    \A n \in RegisteredNames :
       Undisturbed(n) =>
          /\ Cardinality(SetsOf(n)) <= 1
          /\ \A i \in SetsOf(n) :
                /\ \A j \in InvokesOf(n) : j < i
                /\ (i - 1) \in InvokesOf(n)
                /\ \A t \in SeqThreads :
                     /\ Returned(t, "get_bundle", n) => outcome[t].val = events[i].result
                     /\ Returned(t, "get_metadata", n) =>
                          /\ "hash" \in DOMAIN outcome[t].val
                          /\ outcome[t].val["hash"] = events[i].result.hash

\* One build in all: a get_metadata found the stored result of the earlier
\* call and carries its hash.
C28_Witness ==
    /\ Undisturbed(nameA)
    /\ Returned("t1", "get_metadata", nameA)
    /\ "hit" \in effects["t1"]
    /\ Cardinality(InvokesOf(nameA)) = 1
    /\ outcome["t1"].val["hash"] = Build(nameA, 1).hash

\* The last call was an add_source that scanned its directory, and the
\* tree has not changed since.
PassOver(src) ==
    /\ JustScanned("add_source")
    /\ regop.arg = src
    /\ disk[src.path].kind = "dir"
RegisteredAs(src, r) == {x \in DOMAIN components : components[x].package_dir = <<src.path, r>>}

(***************************************************************************)
(* C30, as claimed: within one discovery pass over a source, two distinct  *)
(* component directories never receive the same name, so every component   *)
(* directory of the source is in the mapping after the pass.               *)
(***************************************************************************)
C30_AsClaimed ==
    \A src \in SourceArgs :
       PassOver(src) =>
          /\ \A r1, r2 \in ComponentDirs(src) :
                r1 # r2 => ComponentName(src.prefix, r1) # ComponentName(src.prefix, r2)
          /\ \A r \in ComponentDirs(src) : RegisteredAs(src, r) # {}

(***************************************************************************)
(* C25, as claimed: after a discovery pass over a source, a directory is   *)
(* registered exactly when it lies strictly below the source root and      *)
(* holds index.tsx or index.ts; the root is never registered, a directory  *)
(* with only other files is never registered, a qualifying directory is    *)
(* registered once, with index.tsx as its ts_path when that file exists    *)
(* and index.ts otherwise.                                                 *)
(***************************************************************************)
C25_AsClaimed ==
    \A src \in SourceArgs :
       PassOver(src) =>
          \A r \in RelDirs :
             LET tree == disk[src.path].tree IN
             /\ RegisteredAs(src, r) # {} <=> (r # relRoot /\ tree[r] \cap EntryFiles # {})
             /\ Cardinality(RegisteredAs(src, r))
                  <= Cardinality({s.prefix : s \in {q \in SourceSet : q.path = src.path}})
             /\ \A x \in RegisteredAs(src, r) :
                  components[x].ts_path =
                    <<src.path, r, IF "index.tsx" \in tree[r] THEN "index.tsx" ELSE "index.ts">>

\* The same, for the passes in which no two directories of the source get
\* the same name.
NoClash(src) ==
    \A r1, r2 \in ComponentDirs(src) :
       r1 # r2 => ComponentName(src.prefix, r1) # ComponentName(src.prefix, r2)
C25_WhereNamesDiffer ==
    \A src \in SourceArgs :
       (PassOver(src) /\ NoClash(src)) =>
          \A r \in RelDirs :
             LET tree == disk[src.path].tree IN
             /\ RegisteredAs(src, r) # {} <=> (r # relRoot /\ tree[r] \cap EntryFiles # {})
             /\ \A x \in RegisteredAs(src, r) :
                  components[x].ts_path =
                    <<src.path, r, IF "index.tsx" \in tree[r] THEN "index.tsx" ELSE "index.ts">>
C25_OtherFilesOnly ==
    /\ PassOver(Source(dirB, prefixNone))
    /\ disk[dirB].tree[relDashed] = {"component.tsx"}
    /\ DOMAIN components = {nameWidget}

(***************************************************************************)
(* registry.py:166-195  refresh() seen by other threads.  The registry     *)
(* takes no lock: refresh empties the mapping the readers look into (194)  *)
(* and _discover (166-169) then assigns one entry at a time (160), so a    *)
(* reader can run between any two of these statements.  scan holds the     *)
(* position of the running refresh: the index of the source being          *)
(* scanned, the matches of its two globs still to handle and its           *)
(* seen_dirs.  The readers are list_bundles and get_bundle, whose first    *)
(* statement is registry.get(name).                                        *)
(***************************************************************************)
ScanAt(i, matches, seen) == [i |-> i, matches |-> matches, seen |-> seen]

refreshFrame == <<sources, warned, disk, probe, answer, handlerVars,
                  env, esbuild_path_cache, tmpfiles>>

InitRefresh ==
    /\ sources = <<Source(dirA, prefixNone), Source(dirB, prefixNone),
                   Source(dirB, prefixStore)>>
    /\ warned = <<>>
    /\ disk = [p \in SourcePaths |->
                 IF p = dirA
                 THEN Dir([EmptyTree EXCEPT ![relWidget] = EntryFiles,
                                            ![relRoot] = {"index.tsx"}])
                 ELSE IF p = dirB
                 THEN Dir([EmptyTree EXCEPT ![relWidget] = {"index.ts"},
                                            ![relDashed] = {"component.tsx"}])
                 ELSE IF p = pathFile THEN NotADir("file") ELSE NotADir("missing")]
    /\ components = Discover(EmptyMap, sources, disk)
    /\ regop = NoRegOp
    /\ probe = PyNone
    /\ answer = PyNone
    /\ ToolsIdle
    /\ files = [p \in {widgetA, widgetB} |-> [exists |-> TRUE, mtime |-> 1]]
    /\ cache = EmptyMap
    /\ lock = NoThread
    /\ pc = [t \in Threads |-> "idle"]
    /\ call = [t \in Threads |-> NoCall]
    /\ cop = [t \in Threads |-> NoCop]
    /\ cret = [t \in Threads |-> PyNone]
    /\ cont = [t \in Threads |-> "idle"]
    /\ loc = [t \in Threads |-> InitLoc]
    /\ effects = [t \in Threads |-> {}]
    /\ outcome = [t \in Threads |-> Pending]
    /\ events = <<>>
    /\ recording = FALSE

\* 194: self.components.clear()
RefreshClear ==
    /\ scan = PyNone
    /\ regop.calls < MaxRegOps
    /\ components' = RefreshStart(components)
    /\ scan' = ScanAt(0, <<>>, {})
    /\ regop' = RegOp("refresh", PyNone, PyNone)
    /\ UNCHANGED refreshFrame

\* 168-169, 125-134: the next source of the list; its directory is globbed.
RefreshNextSource ==
    /\ scan # PyNone
    /\ scan.matches = <<>>
    /\ scan.i < Len(sources)
    /\ LET src == sources[scan.i + 1] IN
       scan' = ScanAt(scan.i + 1,
                      IF disk[src.path].kind = "dir" THEN GlobBoth(disk[src.path].tree)
                      ELSE <<>>,
                      {})
    /\ UNCHANGED <<components, regop, refreshFrame>>

\* 134-164: one turn of the loop, for the next match.
RefreshMatch ==
    /\ scan # PyNone
    /\ scan.matches # <<>>
    /\ LET src == sources[scan.i]
           m == Head(scan.matches)
       IN  /\ components' =
                 IF disk[src.path].kind = "dir"
                 THEN DiscoverLoop(components, scan.seen, <<m>>, src.path, src.prefix,
                                   disk[src.path].tree)
                 ELSE components
           /\ scan' = ScanAt(scan.i, Tail(scan.matches),
                             IF m.rel = relRoot THEN scan.seen ELSE scan.seen \cup {m.rel})
    /\ UNCHANGED <<regop, refreshFrame>>

\* 195: refresh returns after the last source.
RefreshReturn ==
    /\ scan # PyNone
    /\ scan.matches = <<>>
    /\ scan.i = Len(sources)
    /\ scan' = PyNone
    /\ UNCHANGED <<components, regop, refreshFrame>>

Settled == {nameWidget, nameStoreWidget}

RefreshNext ==
    \/ RefreshClear
    \/ RefreshNextSource
    \/ RefreshMatch
    \/ RefreshReturn
    \/ ListBundles
    \/ \E t \in SeqThreads :
          \/ \E n \in Settled : CallGetBundle(t, n)
          \/ CallClearCache(t, PyNone)
          \/ GetBundleStep(t)
    \/ \E c \in Appearing : CreateEntry(c.path, c.rel, c.file)

SpecRefresh == InitRefresh /\ [][RefreshNext]_vars

\* get_bundle found no component under the name it was called with.
GotNone(t) ==
    /\ pc[t] = "gb_registry"
    /\ pc'[t] = "done"
    /\ outcome'[t] = ReturnNone
\* list_bundles returned a list.
Listed == regop'.op = "list_bundles" /\ regop' # regop

(***************************************************************************)
(* C29: refresh is not atomic for concurrent readers.  The names "w" and   *)
(* "s:w" are registered whenever no refresh is running, before and after   *)
(* each one.  While a refresh runs the mapping holds only what the sources *)
(* reached so far have produced: it is empty after the clear step and a    *)
(* name can be bound to an earlier source's component.  A get_bundle       *)
(* returns None for such a name, and a list_bundles leaves such a name     *)
(* out, only while a refresh is between its clear step and its return.     *)
(***************************************************************************)
C29_RefreshNotAtomic ==
    /\ [](scan = PyNone => Settled \subseteq DOMAIN components)
    /\ [](scan # PyNone =>
            \A x \in DOMAIN components :
               \E j \in 1..scan.i :
                  /\ components[x].package_dir[1] = sources[j].path
                  /\ Produces(sources[j], x))
    /\ [][\A t \in SeqThreads : GotNone(t) => scan # PyNone]_vars
    /\ [][(Listed /\ \E n \in Settled : [name |-> n] \notin regop'.ret)
            => scan # PyNone]_vars

\* A refresh is running: "s:w" is absent and "w" is bound to the component
\* of dirA, the earlier of its two sources; the last list_bundles returned
\* "w" alone and the last get_bundle("s:w") returned None.
C29_Witness ==
    /\ scan # PyNone
    /\ nameStoreWidget \notin DOMAIN components
    /\ nameWidget \in DOMAIN components
    /\ components[nameWidget].package_dir[1] = dirA
    /\ regop.op = "list_bundles"
    /\ regop.ret = {[name |-> nameWidget]}
    /\ call["t1"].name = nameStoreWidget
    /\ outcome["t1"] = ReturnNone
\* After the refresh "w" is bound to dirB's component again.
C29_Refilled ==
    /\ scan = PyNone
    /\ regop.calls = 1
    /\ components[nameWidget].package_dir[1] = dirB
    /\ outcome["t1"] = ReturnNone

\* With an unchanged tree the statements of refresh add up to
\* Discover(EmptyMap, sources, disk).
RefreshStepsAddUp ==
    [][(scan # PyNone /\ scan' = PyNone /\ (\A p \in {dirA, dirB} : \A r \in {relNested, relDotted} : disk[p].tree[r] = {}) /\ "index.tsx" \notin disk[dirB].tree[relDashed])
          => components' = Discover(EmptyMap, sources, disk)]_vars

====
